---------------------------- MODULE Spec2Model ----------------------------
(***************************************************************************)
(* A model of the core of a colored, compacted de Bruijn graph:            *)
(*   - the open-addressing hash tables (KmerHashTable.h),                  *)
(*   - the driver and the concurrent color-set engine (ColoredCDBG.tcc),   *)
(*   - the unitig index and mutation kernel (UnitigMapper).                *)
(* Each part has its own specification (SpecHT, SpecDriver, SpecInitCS,    *)
(* SpecBuildCS, SpecGraph); the variables of the other parts stay at       *)
(* their initial values.                                                   *)
(***************************************************************************)
EXTENDS Integers, Sequences, FiniteSets, TLC

VARIABLES
    ht,        \* the hash table object of SpecHT: table, size_, pop, num_empty, ...
    absMap,    \* SpecHT, history: the abstract map the table is compared with
    ht_kind,   \* SpecHT: "Kmer" (KmerHashTable) or "Minimizer" (MinimizerHashTable)
    ht_ret,    \* SpecHT: what the last operation returned
    invalid,   \* SpecDriver: ColoredCDBG::invalid
    cdbg,      \* SpecDriver: the CompactedDBG base object: [invalid, built]
    ds_colors, \* SpecDriver: the DataStorage: "none", "built" or "loaded"
    files,     \* SpecDriver: the files written so far
    drv_ret,   \* SpecDriver: the last call and what it returned
    build_failed, \* SpecDriver, history: a call of build has returned false
    color_sets, \* DataStorage::color_sets: per slot [occupied, colors]
    overflow,   \* DataStorage::overflow: unitig (by its head) -> slot, NoSlot if absent
    accessor,   \* the DataAccessor byte stored in each unitig
    head_hash,  \* input: head_hash[u][i] = head(u).hash(seeds[i-1]) % nb_color_sets
    cs_locks,   \* the array of atomic_flag spin locks
    cs_sh,      \* initColorSets, shared: [g_a, last_empty_pos, mutex_cs_overflow]
    cs_wk,      \* initColorSets, per worker: [pc, unitig, l_b, i, h_v, id_lock]
    bcs_sh,     \* buildColorSets, shared: the reader (fp, s, pos_read, ...), stop, returned
    bcs_wk,     \* buildColorSets, per worker: [pc, v_read_color, i, it_km, um, tmp]
    hmap_min_unitigs, \* UnitigMapper: MinimizerHashTable minimizer -> bin of entries
    v_unitigs,  \* UnitigMapper: the long unitigs, [seq, ccov] or NULL
    v_kmers,    \* UnitigMapper: the short unitigs, [first |-> k-mer, second |-> coverage]
    h_kmers_ccov, \* UnitigMapper: KmerHashTable of the abundant unitigs, k-mer -> coverage
    um_ret      \* SpecGraph: the last operation, what it returned and what it started from

htVars == <<ht, ht_kind, absMap, ht_ret>>

drvVars == <<invalid, cdbg, ds_colors, files, drv_ret, build_failed>>

storeVars == <<color_sets, overflow, accessor, head_hash, cs_locks>>

icsVars == <<cs_sh, cs_wk>>

bcsVars == <<bcs_sh, bcs_wk>>

umVars == <<hmap_min_unitigs, v_unitigs, v_kmers, h_kmers_ccov, um_ret>>

vars == <<htVars, drvVars, storeVars, icsVars, bcsVars, umVars>>

\* what the actions of one part leave alone: the variables of the other parts
notHT == <<drvVars, storeVars, icsVars, bcsVars, umVars>>

notDrv == <<htVars, storeVars, icsVars, bcsVars, umVars>>

notICS == <<htVars, drvVars, bcsVars, umVars>>

notBCS == <<htVars, drvVars, icsVars, umVars>>

notUM == <<htVars, drvVars, storeVars, icsVars, bcsVars>>

(***************************************************************************)
(* Bit operations on naturals, as the code's & and | on size_t.            *)
(***************************************************************************)
RECURSIVE BitAnd(_, _)
BitAnd(a, b) ==
    IF a = 0 \/ b = 0 THEN 0
    ELSE (a % 2) * (b % 2) + 2 * BitAnd(a \div 2, b \div 2)

RECURSIVE BitOr(_, _)
BitOr(a, b) ==
    IF a = 0 THEN b
    ELSE IF b = 0 THEN a
    ELSE (IF (a % 2) + (b % 2) > 0 THEN 1 ELSE 0) + 2 * BitOr(a \div 2, b \div 2)

(***************************************************************************)
(* KmerHashTable<T> / MinimizerHashTable<T>                                *)
(* A table object is a record                                              *)
(*   [table, size_, pop, num_empty, empty_val, deleted]                    *)
(* table is the slot array (slot h of the code is table[h + 1]); a slot is *)
(* a pair [first |-> key, second |-> value].  An iterator is its bucket    *)
(* index h; end() is h = size_.  Keys are bit-packed, hence naturals; the  *)
(* two sentinel keys are values no real key takes.                         *)
(***************************************************************************)
EmptyKey == -1

DeletedKey == -2

\* size_t: the 64 bits of pop, scaled down; ++pop and --pop wrap
SizeBits == 16

SizeMod == 2 ^ SizeBits

\* Hash = KmerHash: a fixed function of the packed key
KmerHash(key) == 2 * key + 1

\* Hash = MinimizerHash: a fixed function of the packed key
MinimizerHash(key) == 2 * key + 1

\* size_t rndup(size_t v): v--, v |= v >> 1, 2, 4, 8, 16, 32, v++ on 64 bits.
\* For v = 0 the decrement wraps to 2^64 - 1, every | leaves it, and the
\* increment wraps to 0.
rndup(v) ==
    IF v = 0 THEN 0
    ELSE LET v0 == v - 1
             v1 == BitOr(v0, v0 \div 2)
             v2 == BitOr(v1, v1 \div 4)
             v3 == BitOr(v2, v2 \div 16)
             v4 == BitOr(v3, v3 \div 256)
             v5 == BitOr(v4, v4 \div 65536)
             v6 == BitOr(v5, (v5 \div 65536) \div 65536)
         IN  v6 + 1

\* std::fill(table, table + size_, empty_val); pop = 0; num_empty = size_
HT_clear(t) ==
    [t EXCEPT !.table = [i \in 1..t.size_ |-> t.empty_val],
              !.pop = 0,
              !.num_empty = t.size_]

\* clear_table(); size_ = rndup(sz); table = new value_type[size_]; clear()
HT_init_table(t, sz) ==
    HT_clear([t EXCEPT !.size_ = rndup(sz), !.table = <<>>, !.pop = 0, !.num_empty = 0])

\* KmerHashTable(size_t sz): init_table((size_t) (1.2 * sz)); dflt is T()
KmerHashTable(sz, dflt) ==
    HT_init_table([table |-> <<>>, size_ |-> 0, pop |-> 0, num_empty |-> 0,
                   empty_val |-> [first |-> EmptyKey, second |-> dflt],
                   deleted |-> [first |-> DeletedKey, second |-> dflt]],
                  (12 * sz) \div 10)

\* h = (h + 1 != size_ ? h + 1 : 0)
HT_next(t, h) == IF h + 1 # t.size_ THEN h + 1 ELSE 0

\* iterator_::operator++: the next slot after h holding a real key, or size_
RECURSIVE HT_skip(_, _)
HT_skip(t, h) ==
    IF h >= t.size_ THEN t.size_
    ELSE IF t.table[h + 1].first # t.empty_val.first
            /\ t.table[h + 1].first # t.deleted.first THEN h
    ELSE HT_skip(t, h + 1)

HT_incr(t, h) == IF h = t.size_ THEN h ELSE HT_skip(t, h + 1)

\* begin(): find_first()
HT_begin(t) ==
    IF t.size_ > 0
       /\ (t.table[1].first = t.empty_val.first \/ t.table[1].first = t.deleted.first)
    THEN HT_incr(t, 0)
    ELSE 0

\* ------------------------- KmerHashTable ---------------------------------
\* the probe loop of find(const Kmer& key)
RECURSIVE KHT_findLoop(_, _, _, _)
KHT_findLoop(t, key, h, end_h) ==
    IF t.table[h + 1].first = t.empty_val.first THEN t.size_
    ELSE IF t.table[h + 1].first = key THEN h
    ELSE IF h = end_h THEN t.size_
    ELSE KHT_findLoop(t, key, HT_next(t, h), end_h)

\* iterator find(const Kmer& key)
KHT_find(t, key) ==
    LET h == BitAnd(KmerHash(key), t.size_ - 1)
        end_h == IF h = 0 THEN t.size_ - 1 ELSE h - 1
    IN  KHT_findLoop(t, key, h, end_h)

\* iterator find(const size_t h)
KHT_findH(t, h) ==
    IF h < t.size_ /\ t.table[h + 1].first # t.empty_val.first
       /\ t.table[h + 1].first # t.deleted.first
    THEN h ELSE t.size_

\* iterator erase(const_iterator pos)
KHT_erase_toEmpty(t, pos) ==
    IF pos = t.size_ THEN [t |-> t, it |-> t.size_]
    ELSE LET t1 == [t EXCEPT !.table[pos + 1] = t.empty_val, !.pop = t.pop - 1]
         IN  [t |-> t1, it |-> HT_incr(t1, pos)]

KHT_erase(t, pos) ==
    IF pos = t.size_ THEN [t |-> t, it |-> t.size_]
    ELSE LET t1 == [t EXCEPT !.table[pos + 1] = t.deleted, !.pop = t.pop - 1]
         IN  [t |-> t1, it |-> HT_incr(t1, pos)]

\* iterator erase(const size_t h), lines 207-215: the bucket is not looked at
KHT_eraseH(t, h) ==
    IF h >= t.size_ THEN [t |-> t, it |-> t.size_]
    ELSE LET t1 == [t EXCEPT !.table[h + 1] = t.deleted, !.pop = (t.pop - 1) % SizeMod]
         IN  [t |-> t1, it |-> HT_incr(t1, h)]

\* size_t erase(const Kmer& km)
KHT_eraseKey(t, km) ==
    LET pos == KHT_find(t, km)
        t1 == IF pos # t.size_ THEN KHT_erase(t, pos).t ELSE t
    IN  [t |-> t1, n |-> t.pop - t1.pop]

RECURSIVE KHT_insertLoop_lastDeleted(_, _, _, _, _, _)
\* an insert that remembers the last deleted slot it met, not the first
KHT_insertLoop_lastDeleted(t, val, h, is_deleted, h_tmp, n) ==
    IF n > t.size_ THEN [t |-> t, it |-> t.size_, inserted |-> FALSE, hang |-> TRUE]
    ELSE IF t.table[h + 1].first = t.empty_val.first THEN
        LET hh == IF is_deleted THEN h_tmp ELSE h
            ne == IF is_deleted THEN t.num_empty ELSE t.num_empty - 1
        IN  [t |-> [t EXCEPT !.table[hh + 1] = val, !.pop = (t.pop + 1) % SizeMod, !.num_empty = ne],
             it |-> hh, inserted |-> TRUE, hang |-> FALSE]
    ELSE IF t.table[h + 1].first = val.first THEN
        [t |-> t, it |-> h, inserted |-> FALSE, hang |-> FALSE]
    ELSE IF t.table[h + 1].first = t.deleted.first THEN
        KHT_insertLoop_lastDeleted(t, val, HT_next(t, h), TRUE, h, n + 1)
    ELSE KHT_insertLoop_lastDeleted(t, val, HT_next(t, h), is_deleted, h_tmp, n + 1)

RECURSIVE KHT_insertLoop_atTmp(_, _, _, _, _, _)
\* an insert that stores at h_tmp whether or not it has met a deleted slot
KHT_insertLoop_atTmp(t, val, h, is_deleted, h_tmp, n) ==
    IF n > t.size_ THEN [t |-> t, it |-> t.size_, inserted |-> FALSE, hang |-> TRUE]
    ELSE IF t.table[h + 1].first = t.empty_val.first THEN
        LET ne == IF is_deleted THEN t.num_empty ELSE t.num_empty - 1
        IN  [t |-> [t EXCEPT !.table[h_tmp + 1] = val, !.pop = (t.pop + 1) % SizeMod, !.num_empty = ne],
             it |-> h_tmp, inserted |-> TRUE, hang |-> FALSE]
    ELSE IF t.table[h + 1].first = val.first THEN
        [t |-> t, it |-> h, inserted |-> FALSE, hang |-> FALSE]
    ELSE IF ~is_deleted /\ t.table[h + 1].first = t.deleted.first THEN
        KHT_insertLoop_atTmp(t, val, HT_next(t, h), TRUE, h, n + 1)
    ELSE KHT_insertLoop_atTmp(t, val, HT_next(t, h), is_deleted, h_tmp, n + 1)

\* The probe loop of insert.  The loop has no full-circuit exit: once n
\* probes exceed size_ nothing it reads changes any more and it spins for
\* ever, which the result reports as hang.
RECURSIVE KHT_insertLoop(_, _, _, _, _, _)
KHT_insertLoop(t, val, h, is_deleted, h_tmp, n) ==
    IF n > t.size_ THEN [t |-> t, it |-> t.size_, inserted |-> FALSE, hang |-> TRUE]
    ELSE IF t.table[h + 1].first = t.empty_val.first THEN
        LET hh == IF is_deleted THEN h_tmp ELSE h
            ne == IF is_deleted THEN t.num_empty ELSE t.num_empty - 1
        IN  [t |-> [t EXCEPT !.table[hh + 1] = val, !.pop = (t.pop + 1) % SizeMod, !.num_empty = ne],
             it |-> hh, inserted |-> TRUE, hang |-> FALSE]
    ELSE IF t.table[h + 1].first = val.first THEN
        [t |-> t, it |-> h, inserted |-> FALSE, hang |-> FALSE]
    ELSE IF ~is_deleted /\ t.table[h + 1].first = t.deleted.first THEN
        KHT_insertLoop(t, val, HT_next(t, h), TRUE, h, n + 1)
    ELSE KHT_insertLoop(t, val, HT_next(t, h), is_deleted, h_tmp, n + 1)

RECURSIVE KHT_insert(_, _)
RECURSIVE KHT_reinsert(_, _, _)
\* the loop of reserve over the old table: insert(old_table[i]) for the real keys
KHT_reinsert(t, old, i) ==
    IF i > Len(old) THEN t
    ELSE IF old[i].first # t.empty_val.first /\ old[i].first # t.deleted.first
         THEN KHT_reinsert(KHT_insert(t, old[i]).t, old, i + 1)
         ELSE KHT_reinsert(t, old, i + 1)

\* a reserve that copies the old slots to the front of the new table
\* instead of inserting their keys again
KHT_reserve_copied(t, sz) ==
    IF sz <= t.size_ THEN t
    ELSE [t EXCEPT !.size_ = rndup(sz),
                   !.num_empty = t.num_empty + rndup(sz) - t.size_,
                   !.table = t.table \o [i \in 1..(rndup(sz) - t.size_) |-> t.empty_val]]

\* void reserve(size_t sz)
KHT_reserve(t, sz) ==
    IF sz <= t.size_ THEN t
    ELSE LET n == rndup(sz)
             fresh == [t EXCEPT !.size_ = n, !.pop = 0, !.num_empty = n,
                                !.table = [i \in 1..n |-> t.empty_val]]
         IN  KHT_reinsert(fresh, t.table, 1)

\* std::pair<iterator, bool> insert(const value_type& val)
KHT_insert(t, val) ==
    LET t1 == IF 5 * t.num_empty < t.size_ THEN KHT_reserve(t, 2 * t.size_) ELSE t
    IN  KHT_insertLoop(t1, val, BitAnd(KmerHash(val.first), t1.size_ - 1), FALSE, 0, 0)

\* ----------------------- MinimizerHashTable ------------------------------
\* the probe loop of find(const Minimizer& key)
RECURSIVE MHT_findLoop(_, _, _, _)
MHT_findLoop(t, key, h, end_h) ==
    IF t.table[h + 1].first = t.empty_val.first THEN t.size_
    ELSE IF t.table[h + 1].first = key THEN h
    ELSE IF h = end_h THEN t.size_
    ELSE MHT_findLoop(t, key, HT_next(t, h), end_h)

\* iterator find(const Minimizer& key)
MHT_find(t, key) ==
    LET h == BitAnd(MinimizerHash(key), t.size_ - 1)
        end_h == IF h = 0 THEN t.size_ - 1 ELSE h - 1
    IN  MHT_findLoop(t, key, h, end_h)

\* iterator erase(const_iterator pos)
MHT_erase(t, pos) ==
    IF pos = t.size_ THEN [t |-> t, it |-> t.size_]
    ELSE LET t1 == [t EXCEPT !.table[pos + 1] = t.deleted, !.pop = t.pop - 1]
         IN  [t |-> t1, it |-> HT_incr(t1, pos)]

\* size_t erase(const Minimizer& minz)
MHT_eraseKey(t, minz) ==
    LET pos == MHT_find(t, minz)
        t1 == IF pos # t.size_ THEN MHT_erase(t, pos).t ELSE t
    IN  [t |-> t1, n |-> t.pop - t1.pop]

\* the probe loop of insert (see KHT_insertLoop)
RECURSIVE MHT_insertLoop(_, _, _, _, _, _)
MHT_insertLoop(t, val, h, is_deleted, h_tmp, n) ==
    IF n > t.size_ THEN [t |-> t, it |-> t.size_, inserted |-> FALSE, hang |-> TRUE]
    ELSE IF t.table[h + 1].first = t.empty_val.first THEN
        LET hh == IF is_deleted THEN h_tmp ELSE h
            ne == IF is_deleted THEN t.num_empty ELSE t.num_empty - 1
        IN  [t |-> [t EXCEPT !.table[hh + 1] = val, !.pop = (t.pop + 1) % SizeMod, !.num_empty = ne],
             it |-> hh, inserted |-> TRUE, hang |-> FALSE]
    ELSE IF t.table[h + 1].first = val.first THEN
        [t |-> t, it |-> h, inserted |-> FALSE, hang |-> FALSE]
    ELSE IF ~is_deleted /\ t.table[h + 1].first = t.deleted.first THEN
        MHT_insertLoop(t, val, HT_next(t, h), TRUE, h, n + 1)
    ELSE MHT_insertLoop(t, val, HT_next(t, h), is_deleted, h_tmp, n + 1)

RECURSIVE MHT_insert(_, _)
RECURSIVE MHT_reinsert(_, _, _)
\* the loop of reserve over the old table
MHT_reinsert(t, old, i) ==
    IF i > Len(old) THEN t
    ELSE IF old[i].first # t.empty_val.first /\ old[i].first # t.deleted.first
         THEN MHT_reinsert(MHT_insert(t, old[i]).t, old, i + 1)
         ELSE MHT_reinsert(t, old, i + 1)

\* void reserve(size_t sz)
MHT_reserve(t, sz) ==
    IF sz <= t.size_ THEN t
    ELSE LET n == rndup(sz)
             fresh == [t EXCEPT !.size_ = n, !.pop = 0, !.num_empty = n,
                                !.table = [i \in 1..n |-> t.empty_val]]
         IN  MHT_reinsert(fresh, t.table, 1)

\* std::pair<iterator, bool> insert(const value_type& val)
MHT_insert(t, val) ==
    LET t1 == IF 5 * t.num_empty < t.size_ THEN MHT_reserve(t, 2 * t.size_) ELSE t
    IN  MHT_insertLoop(t1, val, BitAnd(MinimizerHash(val.first), t1.size_ - 1), FALSE, 0, 0)

(***************************************************************************)
(* The driver: ColoredCDBG::build, mapColors, write, clear.  The base      *)
(* class CompactedDBG is a collaborator: its build, write and clear, and   *)
(* DataStorage::write and readColorSets, are modelled by their contract    *)
(* (an invalid base graph refuses build and write; a failing build marks   *)
(* the base graph invalid), with their success an input of the action.     *)
(***************************************************************************)
\* CompactedDBG::build(opt): [ok, cdbg]
CompactedDBG_build(g, ok) ==
    IF g.invalid THEN [ok |-> FALSE, cdbg |-> g]
    ELSE IF ok THEN [ok |-> TRUE, cdbg |-> [g EXCEPT !.built = TRUE]]
    ELSE [ok |-> FALSE, cdbg |-> [g EXCEPT !.invalid = TRUE]]

\* CompactedDBG::write(prefix, ...): [ok, files]
CompactedDBG_write(g, fs, ok) ==
    IF g.invalid THEN [ok |-> FALSE, files |-> fs]
    ELSE IF ok THEN [ok |-> TRUE, files |-> fs \cup {"gfa"}]
    ELSE [ok |-> FALSE, files |-> fs]

\* DataStorage::write(prefix, ...): [ok, files]
DataStorage_write(fs, ok) ==
    IF ok THEN [ok |-> TRUE, files |-> fs \cup {"bfg_colors"}]
    ELSE [ok |-> FALSE, files |-> fs]

\* ColoredCDBG(kmer_length, minimizer_length): invalid = this->isInvalid()
DrvInit ==
    /\ \E bad \in BOOLEAN : cdbg = [invalid |-> bad, built |-> FALSE]
    /\ invalid = cdbg.invalid
    /\ ds_colors = "none"
    /\ files = {}
    /\ drv_ret = [op |-> "none"]
    /\ build_failed = FALSE

DrvIdle ==
    /\ cdbg = [invalid |-> FALSE, built |-> FALSE]
    /\ invalid = FALSE
    /\ ds_colors = "none"
    /\ files = {}
    /\ drv_ret = [op |-> "none"]
    /\ build_failed = FALSE

\* a build that does not test the invalid flag first
build_unguarded(ok) ==
    LET r == CompactedDBG_build(cdbg, ok)
    IN  /\ invalid' = ~r.ok
        /\ cdbg' = r.cdbg
        /\ drv_ret' = [op |-> "build", ret |-> r.ok, pre_invalid |-> invalid,
                       pre_colors |-> ds_colors, pre_files |-> files]
        /\ build_failed' = (build_failed \/ ~r.ok)
        /\ UNCHANGED <<ds_colors, files, notDrv>>

\* bool ColoredCDBG::build(const CCDBG_Build_opt& opt)
build(ok) ==
    LET r == CompactedDBG_build(cdbg, ok)
        inv == IF ~invalid THEN ~r.ok ELSE invalid
    IN  /\ invalid' = inv
        /\ cdbg' = IF ~invalid THEN r.cdbg ELSE cdbg
        /\ drv_ret' = [op |-> "build", ret |-> ~inv, pre_invalid |-> invalid,
                       pre_colors |-> ds_colors, pre_files |-> files]
        /\ build_failed' = (build_failed \/ inv)
        /\ UNCHANGED <<ds_colors, files, notDrv>>

\* bool ColoredCDBG::mapColors(const CCDBG_Build_opt& opt); fromFile is
\* opt.filename_colors_in.size() != 0, ok the result of readColorSets
mapColors(fromFile, ok) ==
    LET inv == IF ~invalid /\ fromFile THEN ~ok ELSE invalid
    IN  /\ invalid' = inv
        /\ ds_colors' = IF invalid THEN ds_colors
                        ELSE IF ~fromFile THEN "built"
                        ELSE IF ok THEN "loaded" ELSE ds_colors
        /\ drv_ret' = [op |-> "mapColors", ret |-> ~inv, pre_invalid |-> invalid,
                       pre_colors |-> ds_colors, pre_files |-> files]
        /\ UNCHANGED <<cdbg, files, build_failed, notDrv>>

\* bool ColoredCDBG::write(prefix_output_filename, nb_threads, verbose)
write(ok_gfa, ok_colors) ==
    LET r1 == CompactedDBG_write(cdbg, files, ok_gfa)
        r2 == DataStorage_write(r1.files, ok_colors)
    IN  /\ files' = IF ~r1.ok THEN r1.files ELSE r2.files
        /\ drv_ret' = [op |-> "write", ret |-> (IF ~r1.ok THEN FALSE ELSE r2.ok),
                       pre_invalid |-> invalid,
                       pre_colors |-> ds_colors, pre_files |-> files]
        /\ UNCHANGED <<invalid, cdbg, ds_colors, build_failed, notDrv>>

\* void ColoredCDBG::clear(): invalid = true; CompactedDBG::clear()
clear ==
    /\ invalid' = TRUE
    /\ cdbg' = [invalid |-> TRUE, built |-> FALSE]
    /\ ds_colors' = "none"
    /\ drv_ret' = [op |-> "clear", ret |-> FALSE, pre_invalid |-> invalid,
                   pre_colors |-> ds_colors, pre_files |-> files]
    /\ UNCHANGED <<files, build_failed, notDrv>>

DrvNext ==
    \/ \E ok \in BOOLEAN : build(ok)
    \/ \E fromFile \in BOOLEAN, ok \in BOOLEAN : mapColors(fromFile, ok)
    \/ \E ok_gfa \in BOOLEAN, ok_colors \in BOOLEAN : write(ok_gfa, ok_colors)
    \/ clear

(***************************************************************************)
(* SpecHT: one table, of either class, under insert and erase (by key and  *)
(* by iterator), with the abstract key -> value map it is to refine.       *)
(***************************************************************************)
MaxKey == 2

MaxVal == 2

MaxCtorSize == 2

MaxCapacity == 8

HTKeys == 0..MaxKey

HTVals == 1..MaxVal

\* T(): the default-constructed mapped value; no stored value equals it
NoVal == 0

HT_isReal(t, h) ==
    t.table[h + 1].first # t.empty_val.first /\ t.table[h + 1].first # t.deleted.first

\* an insert may run when the resize it triggers stays within MaxCapacity
HT_mayInsert(t) == ~(5 * t.num_empty < t.size_ /\ 2 * t.size_ > MaxCapacity)

HTIdle ==
    /\ ht = KmerHashTable(1, NoVal)
    /\ ht_kind = "Kmer"
    /\ absMap = [key \in HTKeys |-> NoVal]
    /\ ht_ret = [op |-> "none"]

HTInit ==
    /\ \E sz \in 1..MaxCtorSize : ht = KmerHashTable(sz, NoVal)
    /\ ht_kind \in {"Kmer", "Minimizer"}
    /\ absMap = [key \in HTKeys |-> NoVal]
    /\ ht_ret = [op |-> "none"]

HT_InsertRet(key, v, r) ==
    [op |-> "insert", key |-> key, val |-> v, was |-> absMap[key],
     it |-> r.it, inserted |-> r.inserted, hang |-> r.hang, cap |-> ht.size_,
     ne |-> ht.num_empty]

KInsert(key, v) ==
    /\ ht_kind = "Kmer"
    /\ HT_mayInsert(ht)
    /\ LET r == KHT_insert(ht, [first |-> key, second |-> v])
       IN  /\ ht' = r.t
           /\ ht_ret' = HT_InsertRet(key, v, r)
    /\ absMap' = IF absMap[key] = NoVal THEN [absMap EXCEPT ![key] = v] ELSE absMap
    /\ UNCHANGED <<ht_kind, notHT>>

MInsert(key, v) ==
    /\ ht_kind = "Minimizer"
    /\ HT_mayInsert(ht)
    /\ LET r == MHT_insert(ht, [first |-> key, second |-> v])
       IN  /\ ht' = r.t
           /\ ht_ret' = HT_InsertRet(key, v, r)
    /\ absMap' = IF absMap[key] = NoVal THEN [absMap EXCEPT ![key] = v] ELSE absMap
    /\ UNCHANGED <<ht_kind, notHT>>

KEraseKey(key) ==
    /\ ht_kind = "Kmer"
    /\ LET r == KHT_eraseKey(ht, key)
       IN  /\ ht' = r.t
           /\ ht_ret' = [op |-> "eraseKey", key |-> key, was |-> absMap[key], n |-> r.n]
    /\ absMap' = [absMap EXCEPT ![key] = NoVal]
    /\ UNCHANGED <<ht_kind, notHT>>

MEraseKey(key) ==
    /\ ht_kind = "Minimizer"
    /\ LET r == MHT_eraseKey(ht, key)
       IN  /\ ht' = r.t
           /\ ht_ret' = [op |-> "eraseKey", key |-> key, was |-> absMap[key], n |-> r.n]
    /\ absMap' = [absMap EXCEPT ![key] = NoVal]
    /\ UNCHANGED <<ht_kind, notHT>>

\* the iterators a caller can hold: one on a real key, or end()
HT_iterators(t) == {h \in 0..(t.size_ - 1) : HT_isReal(t, h)} \cup {t.size_}

HT_EraseItAbs(pos) ==
    IF pos = ht.size_ THEN absMap ELSE [absMap EXCEPT ![ht.table[pos + 1].first] = NoVal]

KEraseIt(pos) ==
    /\ ht_kind = "Kmer"
    /\ pos \in HT_iterators(ht)
    /\ LET r == KHT_erase(ht, pos)
       IN  /\ ht' = r.t
           /\ ht_ret' = [op |-> "eraseIt", pos |-> pos, it |-> r.it]
    /\ absMap' = HT_EraseItAbs(pos)
    /\ UNCHANGED <<ht_kind, notHT>>

MEraseIt(pos) ==
    /\ ht_kind = "Minimizer"
    /\ pos \in HT_iterators(ht)
    /\ LET r == MHT_erase(ht, pos)
       IN  /\ ht' = r.t
           /\ ht_ret' = [op |-> "eraseIt", pos |-> pos, it |-> r.it]
    /\ absMap' = HT_EraseItAbs(pos)
    /\ UNCHANGED <<ht_kind, notHT>>

HTNext ==
    \/ \E key \in HTKeys, v \in HTVals : KInsert(key, v)
    \/ \E key \in HTKeys, v \in HTVals : MInsert(key, v)
    \/ \E key \in HTKeys : KEraseKey(key)
    \/ \E key \in HTKeys : MEraseKey(key)
    \/ \E pos \in 0..MaxCapacity : KEraseIt(pos)
    \/ \E pos \in 0..MaxCapacity : MEraseIt(pos)

\* SpecCap: a table constructed with any requested size, 0 included, under
\* insert, erase, reserve and clear
CapInit ==
    /\ \E sz \in 0..MaxCtorSize : ht = KmerHashTable(sz, NoVal)
    /\ ht_kind \in {"Kmer", "Minimizer"}
    /\ absMap = [key \in HTKeys |-> NoVal]
    /\ ht_ret = [op |-> "none"]

\* no call has run into undefined behaviour, and no insert spins for ever
HT_live == ht_ret.op # "ub" /\ ~("hang" \in DOMAIN ht_ret /\ ht_ret.hang)

\* the table has slots, and the caller can make a call
HT_usable == ht.size_ > 0 /\ HT_live

\* erase by bucket index is called at most MaxStrayErase times more often on
\* buckets without a key than pop has been set right again by reserve or clear
MaxStrayErase == 2

HT_realSlots(t) == {h \in 0..(t.size_ - 1) : HT_isReal(t, h)}

StrayErases(t) == (Cardinality(HT_realSlots(t)) - t.pop) % SizeMod

\* erase(h) of a KmerHashTable (MinimizerHashTable has none)
KEraseH(h) ==
    /\ ht_kind = "Kmer"
    /\ IF h >= ht.size_ THEN TRUE
       ELSE IF HT_isReal(ht, h) THEN TRUE
       ELSE StrayErases(ht) < MaxStrayErase
    /\ LET r == KHT_eraseH(ht, h)
       IN  /\ ht' = r.t
           /\ ht_ret' = [op |-> "eraseH", h |-> h, it |-> r.it]
    /\ absMap' = IF h < ht.size_ /\ HT_isReal(ht, h)
                 THEN [absMap EXCEPT ![ht.table[h + 1].first] = NoVal] ELSE absMap
    /\ UNCHANGED <<ht_kind, notHT>>

\* insert, find and erase by key index the table with hash & (size_ - 1):
\* with no slots that is a read outside the table
HNoTable(key) ==
    /\ ht.size_ = 0
    /\ HT_live
    /\ ht_ret' = [op |-> "ub", key |-> key]
    /\ UNCHANGED <<ht, ht_kind, absMap, notHT>>

HReserve(sz) ==
    /\ HT_live
    /\ ht' = IF ht_kind = "Kmer" THEN KHT_reserve(ht, sz) ELSE MHT_reserve(ht, sz)
    /\ ht_ret' = [op |-> "reserve", sz |-> sz]
    /\ UNCHANGED <<ht_kind, absMap, notHT>>

HClear ==
    /\ HT_live
    /\ ht' = HT_clear(ht)
    /\ absMap' = [key \in HTKeys |-> NoVal]
    /\ ht_ret' = [op |-> "clear"]
    /\ UNCHANGED <<ht_kind, notHT>>

CapNext ==
    \/ \E key \in HTKeys, v \in HTVals : HT_usable /\ KInsert(key, v)
    \/ \E key \in HTKeys, v \in HTVals : HT_usable /\ MInsert(key, v)
    \/ \E key \in HTKeys : HT_usable /\ KEraseKey(key)
    \/ \E key \in HTKeys : HT_usable /\ MEraseKey(key)
    \/ \E pos \in 0..MaxCapacity : HT_usable /\ KEraseIt(pos)
    \/ \E pos \in 0..MaxCapacity : HT_usable /\ MEraseIt(pos)
    \/ \E h \in 0..MaxCapacity : HT_usable /\ KEraseH(h)
    \/ \E key \in HTKeys : HNoTable(key)
    \/ \E sz \in 0..MaxCapacity : HReserve(sz)
    \/ HClear

(***************************************************************************)
(* SpecInitCS: initColorSets.  nb_threads workers take chunks of unitigs   *)
(* under mutex_it and give each unitig a slot of color_sets: the slot of   *)
(* one of its max_nb_hash seeded hashes, claimed under the spin lock of    *)
(* the slot, or, when all of these are occupied, the next free slot from   *)
(* last_empty_pos on, under mutex_cs_overflow.  DataStorage is a           *)
(* collaborator: its constructor and overflow table are modelled by their  *)
(* contract.  Unitigs are 1..NbUnitigs in iteration order, slots and locks *)
(* count from 0, NoWorker means that a mutex is free.                      *)
(***************************************************************************)
NbUnitigs == 3

NbThreads == 2

MaxNbHash == 2

\* const size_t chunk = 1000, scaled down
ChunkSize == 1

\* atomic flags per thread: nb_locks = opt.nb_threads * 256, scaled down
LocksPerThread == 1

nb_locks == NbThreads * LocksPerThread

NoSlot == -1

NoWorker == 0

Workers == 1..NbThreads

\* DataStorage(max_nb_hash, this->size(), ...): the number of slots it may allocate,
\* max(1.2 * sz, 1) with the product rounded down or up
DataStorage_nb_color_sets(sz) ==
    { IF n > 1 THEN n ELSE 1 : n \in {(12 * sz) \div 10, (12 * sz + 9) \div 10} }

nb_color_sets == Len(color_sets)

Slots == 0..(nb_color_sets - 1)

isUnoccupied(h) == ~color_sets[h + 1].occupied

\* while (cs_locks[id_lock].test_and_set(acquire)); leaves the loop only on a clear flag
test_and_set_skipped(id) == TRUE

test_and_set(id) == ~cs_locks[id + 1]

\* after a failed probe the flag is cleared before the next one
probe_release_forgotten(locks, id) == locks

\* a release that clears the flag after the one that was taken
probe_release_next(locks, id) == [locks EXCEPT ![((id + 1) % nb_locks) + 1] = FALSE]

probe_release(locks, id) == [locks EXCEPT ![id + 1] = FALSE]

EmptyStore(n) == [s \in 1..n |-> [occupied |-> FALSE, colors |-> {}]]

WorkerIdleRec == [pc |-> "take", unitig |-> 0, l_b |-> 0, i |-> 0, h_v |-> 0, id_lock |-> 0]

ICSInit ==
    /\ \E n \in DataStorage_nb_color_sets(NbUnitigs) :
          /\ color_sets = EmptyStore(n)
          /\ head_hash \in [1..NbUnitigs -> [1..MaxNbHash -> 0..(n - 1)]]
    /\ overflow = [u \in 1..NbUnitigs |-> NoSlot]
    /\ accessor = [u \in 1..NbUnitigs |-> 0]
    /\ cs_locks = [l \in 1..nb_locks |-> FALSE]
    /\ cs_sh = [g_a |-> 1, last_empty_pos |-> 0, mutex_cs_overflow |-> NoWorker]
    /\ cs_wk = [w \in Workers |-> WorkerIdleRec]

ICSIdle ==
    /\ color_sets = <<>>
    /\ overflow = <<>>
    /\ accessor = <<>>
    /\ head_hash = <<>>
    /\ cs_locks = <<>>
    /\ cs_sh = [g_a |-> 1, last_empty_pos |-> 0, mutex_cs_overflow |-> NoWorker]
    /\ cs_wk = <<>>

\* a thread body that takes its chunk and leaves g_a where it is
ICS_Take_noAdvance(w) ==
    /\ cs_wk[w].pc = "take"
    /\ IF cs_sh.g_a = NbUnitigs + 1
       THEN cs_wk' = [cs_wk EXCEPT ![w].pc = "done"]
       ELSE LET l_b == IF cs_sh.g_a + ChunkSize > NbUnitigs + 1 THEN NbUnitigs + 1
                       ELSE cs_sh.g_a + ChunkSize
            IN cs_wk' = [cs_wk EXCEPT ![w] = [pc |-> "probe", unitig |-> cs_sh.g_a,
                                              l_b |-> l_b, i |-> 0,
                                              h_v |-> @.h_v, id_lock |-> @.id_lock]]
    /\ UNCHANGED <<cs_sh, storeVars, notICS>>

\* the thread body, lines 218-234: take the next chunk under mutex_it, or return
ICS_Take(w) ==
    /\ cs_wk[w].pc = "take"
    /\ IF cs_sh.g_a = NbUnitigs + 1
       THEN /\ cs_wk' = [cs_wk EXCEPT ![w].pc = "done"]
            /\ UNCHANGED cs_sh
       ELSE LET l_b == IF cs_sh.g_a + ChunkSize > NbUnitigs + 1 THEN NbUnitigs + 1
                       ELSE cs_sh.g_a + ChunkSize
            IN /\ cs_wk' = [cs_wk EXCEPT ![w] = [pc |-> "probe", unitig |-> cs_sh.g_a,
                                                 l_b |-> l_b, i |-> 0,
                                                 h_v |-> @.h_v, id_lock |-> @.id_lock]]
               /\ cs_sh' = [cs_sh EXCEPT !.g_a = l_b]
    /\ UNCHANGED <<storeVars, notICS>>

\* lines 161-164: hash with seed i, spin on the lock of the slot
ICS_Probe(w) ==
    LET h_v == head_hash[cs_wk[w].unitig][cs_wk[w].i + 1]
        id_lock == h_v % nb_locks
    IN /\ cs_wk[w].pc = "probe"
       /\ test_and_set(id_lock)
       /\ cs_locks' = [cs_locks EXCEPT ![id_lock + 1] = TRUE]
       /\ cs_wk' = [cs_wk EXCEPT ![w].pc = "check", ![w].h_v = h_v, ![w].id_lock = id_lock]
       /\ UNCHANGED <<color_sets, overflow, accessor, head_hash, cs_sh, notICS>>

\* lines 166-171: keep the lock of a free slot, else release and try the next seed
ICS_Check(w) ==
    /\ cs_wk[w].pc = "check"
    /\ IF isUnoccupied(cs_wk[w].h_v)
       THEN /\ cs_wk' = [cs_wk EXCEPT ![w].pc = "set"]
            /\ UNCHANGED cs_locks
       ELSE /\ cs_locks' = probe_release(cs_locks, cs_wk[w].id_lock)
            /\ cs_wk' = [cs_wk EXCEPT ![w].i = @ + 1,
                            ![w].pc = IF cs_wk[w].i + 1 = MaxNbHash THEN "ovf_lock" ELSE "probe"]
    /\ UNCHANGED <<color_sets, overflow, accessor, head_hash, cs_sh, notICS>>

\* a lock of mutex_cs_overflow that does not wait for the mutex to be free
ICS_OvfLock_unguarded(w) ==
    /\ cs_wk[w].pc = "ovf_lock"
    /\ cs_sh' = [cs_sh EXCEPT !.mutex_cs_overflow = w]
    /\ cs_wk' = [cs_wk EXCEPT ![w].pc = "ovf_probe"]
    /\ UNCHANGED <<storeVars, notICS>>

\* line 173: unique_lock<mutex> lock(mutex_cs_overflow)
ICS_OvfLock(w) ==
    /\ cs_wk[w].pc = "ovf_lock"
    /\ cs_sh.mutex_cs_overflow = NoWorker
    /\ cs_sh' = [cs_sh EXCEPT !.mutex_cs_overflow = w]
    /\ cs_wk' = [cs_wk EXCEPT ![w].pc = "ovf_probe"]
    /\ UNCHANGED <<storeVars, notICS>>

\* lines 177-179: spin on the lock of slot last_empty_pos
ICS_OvfProbe(w) ==
    LET id_lock == cs_sh.last_empty_pos % nb_locks
    IN /\ cs_wk[w].pc = "ovf_probe"
       /\ test_and_set(id_lock)
       /\ cs_locks' = [cs_locks EXCEPT ![id_lock + 1] = TRUE]
       /\ cs_wk' = [cs_wk EXCEPT ![w].pc = "ovf_check", ![w].id_lock = id_lock]
       /\ UNCHANGED <<color_sets, overflow, accessor, head_hash, cs_sh, notICS>>

\* lines 181-191: a free slot ends the scan (insert into overflow, leave the
\* mutex), an occupied one releases its lock and advances last_empty_pos
ICS_OvfCheck(w) ==
    /\ cs_wk[w].pc = "ovf_check"
    /\ IF isUnoccupied(cs_sh.last_empty_pos)
       THEN /\ overflow' = [overflow EXCEPT ![cs_wk[w].unitig] = cs_sh.last_empty_pos]
            /\ cs_wk' = [cs_wk EXCEPT ![w].pc = "set", ![w].h_v = cs_sh.last_empty_pos]
            /\ cs_sh' = [cs_sh EXCEPT !.mutex_cs_overflow = NoWorker]
            /\ UNCHANGED cs_locks
       ELSE /\ cs_locks' = probe_release(cs_locks, cs_wk[w].id_lock)
            /\ cs_sh' = [cs_sh EXCEPT !.last_empty_pos =
                            IF @ + 1 = nb_color_sets THEN 0 ELSE @ + 1]
            /\ cs_wk' = [cs_wk EXCEPT ![w].pc = "ovf_probe"]
            /\ UNCHANGED overflow
    /\ UNCHANGED <<color_sets, accessor, head_hash, notICS>>

\* line 196: DataAccessor<U>(static_cast<uint8_t>(i == max_nb_hash ? 0 : i + 1))
DataAccessor_unshifted(i) == IF i = MaxNbHash THEN 0 ELSE i

DataAccessor(i) == IF i = MaxNbHash THEN 0 ELSE i + 1

\* lines 193-197: setOccupied, release the lock, store the accessor, next unitig
ICS_Set(w) ==
    LET me == cs_wk[w]
    IN /\ me.pc = "set"
       /\ color_sets' = [color_sets EXCEPT ![me.h_v + 1].occupied = TRUE]
       /\ cs_locks' = [cs_locks EXCEPT ![me.id_lock + 1] = FALSE]
       /\ accessor' = [accessor EXCEPT ![me.unitig] = DataAccessor(me.i)]
       /\ cs_wk' = IF me.unitig + 1 = me.l_b
                   THEN [cs_wk EXCEPT ![w].pc = "take"]
                   ELSE [cs_wk EXCEPT ![w].pc = "probe", ![w].unitig = @ + 1, ![w].i = 0]
       /\ UNCHANGED <<overflow, head_hash, cs_sh, notICS>>

ICS_Worker(w) ==
    \/ ICS_Take(w)
    \/ ICS_Probe(w)
    \/ ICS_Check(w)
    \/ ICS_OvfLock(w)
    \/ ICS_OvfProbe(w)
    \/ ICS_OvfCheck(w)
    \/ ICS_Set(w)

ICSNext ==
    \/ \E w \in Workers : ICS_Take(w)
    \/ \E w \in Workers : ICS_Probe(w)
    \/ \E w \in Workers : ICS_Check(w)
    \/ \E w \in Workers : ICS_OvfLock(w)
    \/ \E w \in Workers : ICS_OvfProbe(w)
    \/ \E w \in Workers : ICS_OvfCheck(w)
    \/ \E w \in Workers : ICS_Set(w)

\* for (auto& t : workers) t.join(): initColorSets has returned
ICS_Done == \A w \in Workers : cs_wk[w].pc = "done"

\* DataStorage::getHash for a unitig: the slot its accessor byte resolves to
getHash(u) == IF accessor[u] = 0 THEN overflow[u] ELSE head_hash[u][accessor[u]]

(***************************************************************************)
(* The unitig index and mutation kernel (UnitigMapper).                    *)
(* Kmer, Minimizer, minHashIterator, CompressedCoverage and tiny_vector    *)
(* are collaborators, modelled by their contract.  A sequence is a         *)
(* Sequence over 0..3 (A, C, G, T); a k-mer or minimizer key is the        *)
(* base-4 value of its characters, so that < is the lexicographic order.   *)
(* The 64-bit bin entry (id << 32 | type | pos) of the code is scaled to   *)
(* (id << 4 | type | pos): 3 bits of position, the type bit, 4 bits of id. *)
(* The mapper object g is the record of its four containers and a flag ub  *)
(* that is set once the code has dereferenced an end() iterator.           *)
(***************************************************************************)
\* Kmer::k
K == 5

\* Minimizer::g
G == 3

\* bits of a bin entry below the id field (32 in the code)
ID_SHIFT == 16

MASK_CONTIG_POS == 7

MASK_CONTIG_TYPE == 8

RESERVED_ID == 15

MASK_CONTIG_ID == 240

\* const size_t mask = MASK_CONTIG_ID | MASK_CONTIG_TYPE
mask == BitOr(MASK_CONTIG_ID, MASK_CONTIG_TYPE)

min_abundance_lim == 2

max_abundance_lim == 2

\* CompressedCoverage: a k-mer counts up to cov_full observations
cov_full == 2

\* the default constructors of the two tables: init_table(1024), scaled down
DefaultTableSize == 4

\* the one element of a set of one element.  The({F(x) : x \in {e}}) is F(e)
\* with e computed once: a local of the code is bound this way, the
\* innermost expression being the last statement
The(S) == CHOOSE r \in S : TRUE

\* v_unitigs[i] = NULL
NULL == [seq |-> <<>>, ccov |-> <<>>]

RECURSIVE StrVal(_)
\* Kmer(const char*), Minimizer(const char*): the packed value of a string
StrVal(s) == IF Len(s) = 0 THEN 0 ELSE 4 * StrVal(SubSeq(s, 1, Len(s) - 1)) + s[Len(s)]

\* the reverse complement of a string
twinStr(s) == [i \in 1..Len(s) |-> 3 - s[Len(s) + 1 - i]]

\* Kmer::toString
KmerToString(km) == [i \in 1..K |-> (km \div (4 ^ (K - i))) % 4]

\* Kmer::twin
twin(km) == StrVal(twinStr(KmerToString(km)))

\* Kmer::rep
rep(km) == IF km < twin(km) THEN km ELSE twin(km)

\* Kmer(&s[p]): the k-mer at offset p of s
KmerAt(s, p) == StrVal(SubSeq(s, p + 1, p + K))

\* Minimizer(&s[q]).rep()
MinzRep(s, q) ==
    LET m == SubSeq(s, q + 1, q + G)
    IN  IF StrVal(m) < StrVal(twinStr(m)) THEN StrVal(m) ELSE StrVal(twinStr(m))

\* RepHash of the g-mer at q: equal for a g-mer and its twin, ordered as
\* the canonical g-mers are
RepHash(s, q) == MinzRep(s, q)

\* minHashIterator at the k-mer at offset p of s: the smallest hash of its window
minHash(s, p) ==
    CHOOSE h \in {RepHash(s, q) : q \in p..(p + K - G)} :
        \A q \in p..(p + K - G) : h <= RepHash(s, q)

\* *it_min: the minHashResults of the window, one for each position of the
\* smallest hash, in increasing position
minHashResults(s, p) ==
    LET IsMin(q) == RepHash(s, q) = minHash(s, p)
        qs == SelectSeq([i \in 1..(K - G + 1) |-> p + i - 1], IsMin)
    IN  [i \in 1..Len(qs) |-> [hash |-> minHash(s, p), pos |-> qs[i]]]

\* it_min.getPosition()
getPosition(s, p) == minHashResults(s, p)[1].pos

\* it_min.getNewMin(mhr): the next distinct minimizer of the window, the
\* smallest hash above mhr.hash at its first position, or mhr if there is none
getNewMin(s, p, mhr) ==
    LET qs == {q \in p..(p + K - G) : RepHash(s, q) > mhr.hash}
    IN  IF qs = {} THEN mhr
        ELSE LET h == CHOOSE x \in {RepHash(s, q) : q \in qs} :
                          \A q \in qs : x <= RepHash(s, q)
                 pos == CHOOSE q \in qs :
                          RepHash(s, q) = h /\ \A r \in qs : RepHash(s, r) = h => q <= r
             IN  [hash |-> h, pos |-> pos]

\* UnitigMap(pos_unitig, pos_min, dist, len, size, isShort, isAbundant, strand)
UnitigMap(pos_unitig, pos_min, dist, len, size, isShort, isAbundant, strand) ==
    [isEmpty |-> FALSE, ub |-> FALSE, pos_unitig |-> pos_unitig, pos_min |-> pos_min,
     dist |-> dist, len |-> len, size |-> size, isShort |-> isShort,
     isAbundant |-> isAbundant, strand |-> strand]

\* UnitigMap(pos_min): the empty result
EmptyUnitigMap(pos_min) ==
    [isEmpty |-> TRUE, ub |-> FALSE, pos_unitig |-> 0, pos_min |-> pos_min,
     dist |-> 0, len |-> 1, size |-> 0, isShort |-> FALSE,
     isAbundant |-> FALSE, strand |-> TRUE]

\* find has followed a bin entry to a slot that does not exist (past the end
\* of v_kmers or v_unitigs) or to a NULL unitig: anything can follow
CrashedUnitigMap == [EmptyUnitigMap(0) EXCEPT !.ub = TRUE]

\* it->second of the bin at bucket index it
Bin(t, it) == t.table[it + 1].second

SetBin(t, it, v) == [t EXCEPT !.table[it + 1].second = v]

\* tiny_vector::remove(i) and insert(x, i), i counted from 0
tv_remove(v, i) == SubSeq(v, 1, i) \o SubSeq(v, i + 2, Len(v))

tv_insert(v, x, i) == SubSeq(v, 1, i) \o <<x>> \o SubSeq(v, i + 1, Len(v))

\* Unitig::seq.compareKmer(pos, km)
compareKmer(seq, pos, km) == KmerAt(seq, pos) = km

\* one entry of a bin in find (lines 309-413): a result, or nothing
find_entry(g, km, extremities_only, min_pos, e, it_h) ==
    LET unitig_id == e \div ID_SHIFT
        unitig_id_pos == BitAnd(e, MASK_CONTIG_POS)
        isShort == BitAnd(e, MASK_CONTIG_TYPE) # 0
        km_twin == twin(km)
        km_rep == IF km < km_twin THEN km ELSE km_twin
        diff == K - G
        none == [hit |-> FALSE, um |-> EmptyUnitigMap(it_h)]
        crash == [hit |-> TRUE, um |-> CrashedUnitigMap]
    IN  IF isShort THEN
            IF min_pos = unitig_id_pos THEN
                IF unitig_id >= Len(g.v_kmers) THEN crash
                ELSE IF g.v_kmers[unitig_id + 1].first = km_rep
                THEN [hit |-> TRUE, um |-> UnitigMap(unitig_id, it_h, 0, 1, K, TRUE, FALSE, TRUE)]
                ELSE none
            ELSE IF min_pos = diff - unitig_id_pos THEN
                IF unitig_id >= Len(g.v_kmers) THEN crash
                ELSE IF g.v_kmers[unitig_id + 1].first = km_rep
                THEN [hit |-> TRUE, um |-> UnitigMap(unitig_id, it_h, 0, 1, K, TRUE, FALSE, FALSE)]
                ELSE none
            ELSE none
        ELSE IF unitig_id >= Len(g.v_unitigs) THEN crash
        ELSE IF g.v_unitigs[unitig_id + 1] = NULL THEN crash
        ELSE LET seq == g.v_unitigs[unitig_id + 1].seq
                 len == Len(seq) - K
                 pos_fw == unitig_id_pos - min_pos
                 pos_bw == unitig_id_pos - diff + min_pos
                 Allowed(pos_match) ==
                     IF extremities_only THEN pos_match = 0 \/ pos_match = len
                     ELSE pos_match >= 0 /\ pos_match <= len
             IN  IF Allowed(pos_fw) /\ compareKmer(seq, pos_fw, km)
                 THEN [hit |-> TRUE,
                       um |-> UnitigMap(unitig_id, it_h, pos_fw, 1, len + K, FALSE, FALSE, TRUE)]
                 ELSE IF Allowed(pos_bw) /\ compareKmer(seq, pos_bw, km_twin)
                 THEN [hit |-> TRUE,
                       um |-> UnitigMap(unitig_id, it_h, pos_bw, 1, len + K, FALSE, FALSE, FALSE)]
                 ELSE none

RECURSIVE find_entries(_, _, _, _, _, _, _, _, _)
\* the for loop over the entries of one bin (lines 307-414): a result, or the
\* bin to continue with (it) and the minimizer it belongs to (mhr)
find_entries(g, km, extremities_only, min_pos, v, i, it_h, it, mhr) ==
    IF i > Len(v) THEN [hit |-> FALSE, it |-> it, mhr |-> mhr]
    ELSE IF v[i] \div ID_SHIFT = RESERVED_ID THEN
        The({The({IF BitAnd(v[i], RESERVED_ID) # 0 /\ it_km # g.h_kmers_ccov.size_
            THEN [hit |-> TRUE,
                  um |-> UnitigMap(it_km, it_h, 0, 1, K, FALSE, TRUE, km = rep(km))]
            ELSE IF BitAnd(v[i], MASK_CONTIG_TYPE) = MASK_CONTIG_TYPE
                    /\ mhr_tmp.hash # mhr.hash
            THEN find_entries(g, km, extremities_only, min_pos, v, i + 1, it_h,
                              MHT_find(g.hmap_min_unitigs,
                                       MinzRep(KmerToString(km), mhr_tmp.pos)),
                              mhr_tmp)
            ELSE find_entries(g, km, extremities_only, min_pos, v, i + 1, it_h, it, mhr)
                  : it_km \in {KHT_find(g.h_kmers_ccov, rep(km))}})
             : mhr_tmp \in {getNewMin(KmerToString(km), 0, mhr)}})
    ELSE The({IF r.hit THEN r
             ELSE find_entries(g, km, extremities_only, min_pos, v, i + 1, it_h, it, mhr)
              : r \in {find_entry(g, km, extremities_only, min_pos, v[i], it_h)}})

RECURSIVE find_bins(_, _, _, _, _, _, _)
\* while (it != hmap_min_unitigs.end()), lines 298-415
find_bins(g, km, extremities_only, min_pos, it, mhr, it_h) ==
    IF it = g.hmap_min_unitigs.size_ THEN [hit |-> FALSE, it_h |-> it_h]
    ELSE The({IF r.hit THEN r
             ELSE find_bins(g, km, extremities_only, min_pos, r.it, r.mhr, it)
              : r \in {find_entries(g, km, extremities_only, min_pos,
                          Bin(g.hmap_min_unitigs, it), 1, it,
                          g.hmap_min_unitigs.size_, mhr)}})

RECURSIVE find_mins(_, _, _, _, _, _)
\* while (it_it_min != it_it_min_end), lines 290-418
find_mins(g, km, extremities_only, res, j, it_h) ==
    IF j > Len(res) THEN EmptyUnitigMap(it_h)
    ELSE The({IF r.hit THEN r.um
             ELSE find_mins(g, km, extremities_only, res, j + 1, r.it_h)
              : r \in {find_bins(g, km, extremities_only, res[j].pos,
                       MHT_find(g.hmap_min_unitigs, MinzRep(KmerToString(km), res[j].pos)),
                       res[j], it_h)}})

\* UnitigMap UnitigMapper::find(const Kmer& km, bool extremities_only) const
find(g, km, extremities_only) ==
    The({find_mins(g, km, extremities_only, res, 1, 0)
         : res \in {minHashResults(KmerToString(km), 0)}})

\* the width of a bin entry (64 bits in the code): ++ and -- wrap
WORD == 256

\* index (from 1) of the first entry of v with (v[i] & mask) == pos_id_unitig, 0 if none
entryOf(v, pos_id_unitig) ==
    IF \E i \in 1..Len(v) : BitAnd(v[i], mask) = pos_id_unitig
    THEN CHOOSE i \in 1..Len(v) :
            /\ BitAnd(v[i], mask) = pos_id_unitig
            /\ \A j \in 1..(i - 1) : BitAnd(v[j], mask) # pos_id_unitig
    ELSE 0

\* v[v_sz - 1] after v.remove(i) has shortened v to v_sz - 1 entries: a read
\* one past the end of the vector, which yields the old last entry, or the
\* overcrowded marker, or some other word
tv_read_past_end(oob, old_last) ==
    IF oob = "stale" THEN old_last ELSE IF oob = "marker" THEN mask ELSE 0

OobOutcomes == {"stale", "marker", "other"}

RECURSIVE deleteUnitig_bins(_, _, _, _, _, _, _, _, _)
\* while (it_h != hmap_min_unitigs.end()), lines 1148-1178: [t, isForbidden,
\* past_end]; past_end tells whether line 1165 has read v[v_sz - 1] of a bin
\* that v.remove(i) had shortened to v_sz - 1 entries
deleteUnitig_bins(t, s, p, pos_id_unitig, isShort, it_h, mhr, isForbidden, oob) ==
    IF it_h = t.size_ THEN [t |-> t, isForbidden |-> isForbidden, past_end |-> FALSE]
    ELSE The({The({The({The({The({The({IF Len(v1) = 0
             THEN [t |-> MHT_eraseKey(t1, t.table[it_h + 1].first).t,
                   isForbidden |-> isForbidden, past_end |-> FALSE]
             ELSE IF ~isShort
                     /\ BitAnd(IF ~pe THEN v1[Len(v)]
                               ELSE tv_read_past_end(oob, v[Len(v)]), mask) = mask
             THEN IF mhr_tmp.hash # mhr.hash
                  THEN [deleteUnitig_bins(t1, s, p, pos_id_unitig, isShort,
                                          MHT_find(t1, MinzRep(s, mhr_tmp.pos)),
                                          mhr_tmp, TRUE, oob)
                        EXCEPT !.past_end = @ \/ pe]
                  ELSE [t |-> t1, isForbidden |-> TRUE, past_end |-> pe]
             ELSE [t |-> t1, isForbidden |-> isForbidden, past_end |-> ~isShort /\ pe]
                                       : pe \in {Len(v) > Len(v1)}})
                                  : mhr_tmp \in {getNewMin(s, p, mhr)}})
                             : t1 \in {SetBin(t, it_h, v1)}})
                        : v1 \in {IF i = 0 THEN v ELSE tv_remove(v, i - 1)}})
                   : i \in {entryOf(v, pos_id_unitig)}})
              : v \in {Bin(t, it_h)}})

RECURSIVE deleteUnitig_mins(_, _, _, _, _, _, _, _)
\* while (it_it_min != it_it_min_end), lines 1140-1182;
\* st = [t, isForbidden, last_pos_min, past_end]
deleteUnitig_mins(st, s, p, res, j, pos_id_unitig, isShort, oob) ==
    IF j > Len(res) THEN st
    ELSE The({deleteUnitig_mins([t |-> r.t, isForbidden |-> r.isForbidden,
                                last_pos_min |-> res[j].pos,
                                past_end |-> st.past_end \/ r.past_end],
                               s, p, res, j + 1, pos_id_unitig, isShort, oob)
              : r \in {deleteUnitig_bins(st.t, s, p, pos_id_unitig, isShort,
                               MHT_find(st.t, MinzRep(s, res[j].pos)),
                               res[j], st.isForbidden, oob)}})

RECURSIVE deleteUnitig_windows(_, _, _, _, _, _)
\* for (last_pos_min = -1; it_min != it_min_end; it_min++), lines 1133-1184
deleteUnitig_windows(st, s, p, pos_id_unitig, isShort, oob) ==
    IF p > Len(s) - K THEN st
    ELSE IF st.last_pos_min < getPosition(s, p) \/ st.isForbidden
    THEN The({The({deleteUnitig_windows(st1, s, p + 1, pos_id_unitig, isShort, oob)
                   : st1 \in {deleteUnitig_mins([st EXCEPT !.isForbidden = FALSE], s, p, res, 1,
                               pos_id_unitig, isShort, oob)}})
              : res \in {minHashResults(s, p)}})
    ELSE deleteUnitig_windows(st, s, p + 1, pos_id_unitig, isShort, oob)

\* the walk of deleteUnitig over the bins of a unitig of v_unitigs or
\* v_kmers, lines 1106-1184: [t, isForbidden, last_pos_min, past_end]
deleteUnitig_walk(g, isShort, id_unitig, oob) ==
    deleteUnitig_windows(
        [t |-> g.hmap_min_unitigs, isForbidden |-> FALSE, last_pos_min |-> -1,
         past_end |-> FALSE],
        IF isShort THEN KmerToString(g.v_kmers[id_unitig + 1].first)
        ELSE g.v_unitigs[id_unitig + 1].seq,
        0,
        IF isShort THEN BitOr(id_unitig * ID_SHIFT, MASK_CONTIG_TYPE)
        ELSE id_unitig * ID_SHIFT,
        isShort, oob)

RECURSIVE deleteUnitig_abundant(_, _, _, _)
\* the abundant path, lines 1079-1102: one less abundant k-mer in every bin
\* of a minimizer of km
deleteUnitig_abundant(t, km_str, res, j) ==
    IF j > Len(res) THEN t
    ELSE The({IF it_h = t.size_ THEN deleteUnitig_abundant(t, km_str, res, j + 1)
             ELSE The({The({The({deleteUnitig_abundant(t1, km_str, res, j + 1)
                                 : t1 \in {IF BitAnd(v[Len(v)], RESERVED_ID) = 0
                         /\ BitAnd(v[Len(v)], MASK_CONTIG_TYPE) # MASK_CONTIG_TYPE
                      THEN IF Len(v) = 1
                           THEN MHT_eraseKey(t, MinzRep(km_str, res[j].pos)).t
                           ELSE SetBin(t, it_h, tv_remove(v, Len(v) - 1))
                      ELSE SetBin(t, it_h, v)}})
                            : v \in {[v0 EXCEPT ![Len(v0)] = (@ + WORD - 1) % WORD]}})
                       : v0 \in {Bin(t, it_h)}})
              : it_h \in {MHT_find(t, MinzRep(km_str, res[j].pos))}})

\* void UnitigMapper::deleteUnitig(isShort, isAbundant, id_unitig); oob is
\* what the reads past the end of a bin yield in this call
deleteUnitig(g, isShort, isAbundant, id_unitig, oob) ==
    IF isAbundant THEN
        IF KHT_findH(g.h_kmers_ccov, id_unitig) = g.h_kmers_ccov.size_
        THEN [g EXCEPT !.ub = TRUE]
        ELSE The({The({[g EXCEPT !.hmap_min_unitigs =
                               deleteUnitig_abundant(@, KmerToString(km), res, 1),
                           !.h_kmers_ccov = KHT_eraseKey(@, km).t]
                       : res \in {minHashResults(KmerToString(km), 0)}})
                  : km \in {g.h_kmers_ccov.table[id_unitig + 1].first}})
    ELSE The({IF isShort
             THEN [g EXCEPT !.hmap_min_unitigs = st.t,
                            !.v_kmers[id_unitig + 1].first = DeletedKey]
             ELSE [g EXCEPT !.hmap_min_unitigs = st.t,
                            !.v_unitigs[id_unitig + 1] = NULL]
              : st \in {deleteUnitig_walk(g, isShort, id_unitig, oob)}})

RECURSIVE addUnitig_crowded(_, _, _, _, _, _)
\* the while loop of lines 964-984: from a full or marked bin on to the bin
\* of the next distinct minimizer of the window; [t, it, isForbidden]
addUnitig_crowded(t, c_str, p, it, mhr, isForbidden) ==
    The({The({IF Len(v) >= max_abundance_lim \/ (Len(v) > 0 /\ BitAnd(v[Len(v)], mask) = mask)
        THEN IF mhr_tmp.hash # mhr.hash
             THEN The({addUnitig_crowded(p_new.t, c_str, p, p_new.it, mhr_tmp, TRUE)
                       : p_new \in {MHT_insert(
                          IF BitAnd(v[Len(v)], mask) # mask
                          THEN IF BitAnd(v[Len(v)], MASK_CONTIG_ID) = MASK_CONTIG_ID
                               THEN SetBin(t, it, [v EXCEPT ![Len(v)] =
                                                      BitOr(@, MASK_CONTIG_TYPE)])
                               ELSE SetBin(t, it, Append(v, mask))
                          ELSE t,
                          [first |-> MinzRep(c_str, mhr_tmp.pos), second |-> <<>>])}})
             ELSE [t |-> t, it |-> it, isForbidden |-> TRUE]
        ELSE [t |-> t, it |-> it, isForbidden |-> isForbidden]
              : mhr_tmp \in {getNewMin(c_str, p, mhr)}})
         : v \in {Bin(t, it)}})

\* one minHashResult of a window, lines 952-1006;
\* st = [t, pos_id_unitig, isShort, isAbundant, isForbidden, last_pos_min, at_end]
addUnitig_min(st, c_str, p, min_h_res) ==
    The({The({The({The({The({IF Len(v) = 0
        THEN [st1 EXCEPT !.t = SetBin(r.t, r.it, <<pos_id_unitig>>),
                         !.last_pos_min = min_h_res.pos]
        ELSE IF st.isShort /\ Len(v) >= min_abundance_lim
        THEN [st1 EXCEPT !.isShort = FALSE, !.isAbundant = TRUE, !.at_end = TRUE]
        ELSE IF BitAnd(v[Len(v)], MASK_CONTIG_ID) = MASK_CONTIG_ID
        THEN [st1 EXCEPT !.t = IF Len(v) = 1 \/ v[Len(v) - 1] # pos_id_unitig
                                THEN SetBin(r.t, r.it, tv_insert(v, pos_id_unitig, Len(v) - 1))
                                ELSE r.t,
                         !.last_pos_min = min_h_res.pos]
        ELSE [st1 EXCEPT !.t = IF v[Len(v)] # pos_id_unitig
                                THEN SetBin(r.t, r.it, Append(v, pos_id_unitig))
                                ELSE r.t,
                         !.last_pos_min = min_h_res.pos]
                             : st1 \in {[st EXCEPT !.t = r.t, !.pos_id_unitig = pos_id_unitig,
                   !.isForbidden = r.isForbidden]}})
                        : v \in {Bin(r.t, r.it)}})
                   : r \in {IF ~st.isShort
        THEN addUnitig_crowded(p_ins.t, c_str, p, p_ins.it, min_h_res, st.isForbidden)
        ELSE [t |-> p_ins.t, it |-> p_ins.it, isForbidden |-> st.isForbidden]}})
              : pos_id_unitig \in {BitOr(BitAnd(st.pos_id_unitig, mask), min_h_res.pos)}})
         : p_ins \in {MHT_insert(st.t, [first |-> MinzRep(c_str, min_h_res.pos), second |-> <<>>])}})

RECURSIVE addUnitig_mins(_, _, _, _, _)
\* while (it_it_min != it_it_min_end), lines 950-1007
addUnitig_mins(st, c_str, p, res, j) ==
    IF j > Len(res) \/ st.at_end THEN st
    ELSE The({addUnitig_mins(st1, c_str, p, res, j + 1)
              : st1 \in {addUnitig_min(st, c_str, p, res[j])}})

RECURSIVE addUnitig_windows(_, _, _)
\* for (last_pos_min = -1; it_min != it_min_end; it_min++), lines 942-1009
addUnitig_windows(st, c_str, p) ==
    IF p > Len(c_str) - K \/ st.at_end THEN st
    ELSE IF st.last_pos_min < getPosition(c_str, p) \/ st.isForbidden
    THEN The({The({addUnitig_windows(st1, c_str, p + 1)
                   : st1 \in {addUnitig_mins([st EXCEPT !.isForbidden = FALSE], c_str, p, res, 1)}})
              : res \in {minHashResults(c_str, p)}})
    ELSE addUnitig_windows(st, c_str, p + 1)

RECURSIVE addUnitig_abundant_once(_, _, _, _)
addUnitig_abundant_once(t, c_str, res, j) ==
    IF j > 1 THEN t
    ELSE The({The({The({addUnitig_abundant_once(t1, c_str, res, j + 1)
                        : t1 \in {SetBin(p_ins.t, p_ins.it,
                    IF Len(v) > 0 /\ BitAnd(v[Len(v)], MASK_CONTIG_ID) = MASK_CONTIG_ID
                    THEN [v EXCEPT ![Len(v)] = (@ + 1) % WORD]
                    ELSE Append(v, MASK_CONTIG_ID + 1))}})
                   : v \in {Bin(p_ins.t, p_ins.it)}})
              : p_ins \in {MHT_insert(t, [first |-> MinzRep(c_str, res[j].pos), second |-> <<>>])}})

RECURSIVE addUnitig_abundant_pushAlways(_, _, _, _)
\* a variant that pushes a new bookkeeping record on every bin, whether the
\* bin has one or not
addUnitig_abundant_pushAlways(t, c_str, res, j) ==
    IF j > Len(res) THEN t
    ELSE The({The({addUnitig_abundant_pushAlways(
                        SetBin(p_ins.t, p_ins.it, Append(v, MASK_CONTIG_ID + 1)),
                        c_str, res, j + 1)
                   : v \in {Bin(p_ins.t, p_ins.it)}})
              : p_ins \in {MHT_insert(t, [first |-> MinzRep(c_str, res[j].pos), second |-> <<>>])}})

RECURSIVE addUnitig_abundant(_, _, _, _)
\* lines 1027-1042: one more abundant k-mer in every bin of a minimizer of the k-mer
addUnitig_abundant(t, c_str, res, j) ==
    IF j > Len(res) THEN t
    ELSE The({The({The({addUnitig_abundant(t1, c_str, res, j + 1)
                        : t1 \in {SetBin(p_ins.t, p_ins.it,
                    IF Len(v) > 0 /\ BitAnd(v[Len(v)], MASK_CONTIG_ID) = MASK_CONTIG_ID
                    THEN [v EXCEPT ![Len(v)] = (@ + 1) % WORD]
                    ELSE Append(v, MASK_CONTIG_ID + 1))}})
                   : v \in {Bin(p_ins.t, p_ins.it)}})
              : p_ins \in {MHT_insert(t, [first |-> MinzRep(c_str, res[j].pos), second |-> <<>>])}})

\* v[id] = x, or v.push_back(x) when id == v.size()
storeAt(v, id, x) == IF id = Len(v) THEN Append(v, x) ELSE [v EXCEPT ![id + 1] = x]

\* new Unitig(c_str): the sequence and a coverage of 0 for each of its k-mers
Unitig(c_str) == [seq |-> c_str, ccov |-> [i \in 1..(Len(c_str) - K + 1) |-> 0]]

addUnitig_storeAbundant_keepShort(g, km_rep, c_str, id_unitig) ==
    The({The({[g2 EXCEPT !.hmap_min_unitigs = addUnitig_abundant(@, c_str, res, 1),
                   !.h_kmers_ccov = KHT_insert(@, [first |-> km_rep, second |-> 0]).t]
              : res \in {minHashResults(c_str, 0)}})
         : g2 \in {[g EXCEPT !.v_kmers = storeAt(@, id_unitig, [first |-> km_rep, second |-> 0])]}})

\* lines 1011-1047: store the k-mer in v_kmers, take its entries out of the
\* bins again, drop the slot if it is the last one, count the k-mer in the
\* bins of its minimizers and make it a key of h_kmers_ccov
addUnitig_storeAbundant(g, km_rep, c_str, id_unitig) ==
    The({The({[g2 EXCEPT !.v_kmers = IF id_unitig = Len(@) - 1
                               THEN SubSeq(@, 1, Len(@) - 1) ELSE @,
                   !.hmap_min_unitigs = addUnitig_abundant(@, c_str, res, 1),
                   !.h_kmers_ccov = KHT_insert(@, [first |-> km_rep, second |-> 0]).t]
              : res \in {minHashResults(c_str, 0)}})
         : g2 \in {deleteUnitig([g EXCEPT !.v_kmers = storeAt(@, id_unitig,
                                                   [first |-> km_rep, second |-> 0])],
                     TRUE, FALSE, id_unitig, "stale")}})

\* bool UnitigMapper::addUnitig(const string& str_unitig, const size_t id_unitig):
\* [g, isAbundant]
addUnitig(g, str_unitig, id_unitig) ==
    The({The({The({IF st.isAbundant
        THEN [g |-> addUnitig_storeAbundant([g EXCEPT !.hmap_min_unitigs = st.t],
                                            km_rep, c_str, id_unitig),
              isAbundant |-> TRUE]
        ELSE IF st.isShort
        THEN [g |-> [g EXCEPT !.hmap_min_unitigs = st.t,
                              !.v_kmers = storeAt(@, id_unitig,
                                                  [first |-> km_rep, second |-> 0])],
              isAbundant |-> FALSE]
        ELSE [g |-> [g EXCEPT !.hmap_min_unitigs = st.t,
                              !.v_unitigs = storeAt(@, id_unitig, Unitig(c_str))],
              isAbundant |-> FALSE]
                   : st \in {addUnitig_windows(
            [t |-> g.hmap_min_unitigs,
             pos_id_unitig |-> IF Len(str_unitig) = K
                               THEN BitOr(id_unitig * ID_SHIFT, MASK_CONTIG_TYPE)
                               ELSE id_unitig * ID_SHIFT,
             isShort |-> Len(str_unitig) = K, isAbundant |-> FALSE,
             isForbidden |-> FALSE, last_pos_min |-> -1, at_end |-> FALSE],
            c_str, 0)}})
              : c_str \in {IF Len(str_unitig) = K THEN KmerToString(km_rep) ELSE str_unitig}})
         : km_rep \in {rep(StrVal(str_unitig))}})

RECURSIVE swapUnitigs_chain(_, _, _, _, _, _)
\* while ((it_h->second[v_sz-1] & mask) == mask), lines 1259-1277:
\* [v_min, isForbidden]
swapUnitigs_chain(t, s, p, it_h, mhr, r) ==
    IF BitAnd(Bin(t, it_h)[Len(Bin(t, it_h))], mask) = mask
    THEN The({The({IF mhr_tmp.hash # mhr.hash /\ it_n # t.size_
             THEN swapUnitigs_chain(t, s, p, it_n, mhr_tmp,
                                    [v_min |-> r.v_min \cup {MinzRep(s, mhr_tmp.pos)},
                                     isForbidden |-> TRUE])
             ELSE [r EXCEPT !.isForbidden = TRUE]
                   : it_n \in {MHT_find(t, MinzRep(s, mhr_tmp.pos))}})
              : mhr_tmp \in {getNewMin(s, p, mhr)}})
    ELSE r

RECURSIVE swapUnitigs_mins(_, _, _, _, _, _, _)
\* while (it_it_min != it_it_min_end), lines 1242-1284;
\* st = [v_min, isForbidden, last_pos_min]
swapUnitigs_mins(st, t, s, p, res, j, isShort) ==
    IF j > Len(res) THEN st
    ELSE The({The({swapUnitigs_mins([v_min |-> r.v_min, isForbidden |-> r.isForbidden,
                                   last_pos_min |-> res[j].pos],
                                  t, s, p, res, j + 1, isShort)
                   : r \in {IF isShort
             THEN [v_min |-> st.v_min \cup {MinzRep(s, res[j].pos)},
                   isForbidden |-> st.isForbidden]
             ELSE IF it_h # t.size_
             THEN swapUnitigs_chain(t, s, p, it_h, res[j],
                                    [v_min |-> st.v_min \cup {MinzRep(s, res[j].pos)},
                                     isForbidden |-> st.isForbidden])
             ELSE [v_min |-> st.v_min, isForbidden |-> st.isForbidden]}})
              : it_h \in {MHT_find(t, MinzRep(s, res[j].pos))}})

RECURSIVE swapUnitigs_windows(_, _, _, _, _)
\* for (last_pos_min = -1; it_min != it_min_end; it_min++), lines 1235-1286
swapUnitigs_windows(st, t, s, p, isShort) ==
    IF p > Len(s) - K THEN st
    ELSE IF st.last_pos_min < getPosition(s, p) \/ st.isForbidden
    THEN The({The({swapUnitigs_windows(st1, t, s, p + 1, isShort)
                   : st1 \in {swapUnitigs_mins([st EXCEPT !.isForbidden = FALSE], t, s, p, res, 1, isShort)}})
              : res \in {minHashResults(s, p)}})
    ELSE swapUnitigs_windows(st, t, s, p + 1, isShort)

\* v_min_a, v_min_b: the sorted list of the minimizers of a unitig, as a set
swapUnitigs_v_min(t, s, isShort) ==
    swapUnitigs_windows([v_min |-> {}, isForbidden |-> FALSE, last_pos_min |-> -1],
                        t, s, 0, isShort).v_min

\* lines 1290-1310 and 1387-1406: in the bins of the minimizers v_min, an
\* entry of unitig from1 becomes one of to1 at the same position, and one of
\* from2 becomes one of to2 (from2 = -1: none)
swapUnitigs_rewrite(t, v_min, from1, to1, from2, to2) ==
    LET Swapped(e) ==
            IF BitAnd(e, mask) = from1 THEN BitOr(to1, BitAnd(e, MASK_CONTIG_POS))
            ELSE IF BitAnd(e, mask) = from2 THEN BitOr(to2, BitAnd(e, MASK_CONTIG_POS))
            ELSE e
    IN  [t EXCEPT !.table =
            [h \in DOMAIN t.table |->
                IF HT_isReal(t, h - 1) /\ t.table[h].first \in v_min
                THEN [t.table[h] EXCEPT !.second = [i \in DOMAIN @ |-> Swapped(@[i])]]
                ELSE t.table[h]]]

\* swapUnitigs without the removal from v_min_b of the minimizers of v_min_a
swapUnitigs_rewriteTwice(g, isShort, id_a, id_b) ==
    The({The({The({The({The({The({[g1 EXCEPT !.hmap_min_unitigs =
                       swapUnitigs_rewrite(t1, v_min_b,
                                           shift_id_unitig_a, shift_id_unitig_b,
                                           -1, -1)]
                                  : v_min_b \in {swapUnitigs_v_min(t1,
                          IF isShort THEN KmerToString(g1.v_kmers[id_b + 1].first)
                          ELSE g1.v_unitigs[id_b + 1].seq,
                          isShort)}})
                             : t1 \in {swapUnitigs_rewrite(g1.hmap_min_unitigs, v_min_a,
                            shift_id_unitig_b, shift_id_unitig_a,
                            shift_id_unitig_a, shift_id_unitig_b)}})
                        : v_min_a \in {swapUnitigs_v_min(g1.hmap_min_unitigs,
                          IF isShort THEN KmerToString(g1.v_kmers[id_a + 1].first)
                          ELSE g1.v_unitigs[id_a + 1].seq,
                          isShort)}})
                   : g1 \in {IF isShort
        THEN [g EXCEPT !.v_kmers[id_a + 1] = g.v_kmers[id_b + 1],
                       !.v_kmers[id_b + 1] = g.v_kmers[id_a + 1]]
        ELSE [g EXCEPT !.v_unitigs[id_a + 1] = g.v_unitigs[id_b + 1],
                       !.v_unitigs[id_b + 1] = g.v_unitigs[id_a + 1]]}})
              : shift_id_unitig_b \in {BitOr(id_b * ID_SHIFT, IF isShort THEN MASK_CONTIG_TYPE ELSE 0)}})
         : shift_id_unitig_a \in {BitOr(id_a * ID_SHIFT, IF isShort THEN MASK_CONTIG_TYPE ELSE 0)}})

\* void UnitigMapper::swapUnitigs(const bool isShort, const size_t id_a, const size_t id_b)
swapUnitigs(g, isShort, id_a, id_b) ==
    The({The({The({The({The({The({[g1 EXCEPT !.hmap_min_unitigs =
                       swapUnitigs_rewrite(t1, v_min_b \ v_min_a,
                                           shift_id_unitig_a, shift_id_unitig_b,
                                           -1, -1)]
                                  : v_min_b \in {swapUnitigs_v_min(t1,
                          IF isShort THEN KmerToString(g1.v_kmers[id_b + 1].first)
                          ELSE g1.v_unitigs[id_b + 1].seq,
                          isShort)}})
                             : t1 \in {swapUnitigs_rewrite(g1.hmap_min_unitigs, v_min_a,
                            shift_id_unitig_b, shift_id_unitig_a,
                            shift_id_unitig_a, shift_id_unitig_b)}})
                        : v_min_a \in {swapUnitigs_v_min(g1.hmap_min_unitigs,
                          IF isShort THEN KmerToString(g1.v_kmers[id_a + 1].first)
                          ELSE g1.v_unitigs[id_a + 1].seq,
                          isShort)}})
                   : g1 \in {IF isShort
        THEN [g EXCEPT !.v_kmers[id_a + 1] = g.v_kmers[id_b + 1],
                       !.v_kmers[id_b + 1] = g.v_kmers[id_a + 1]]
        ELSE [g EXCEPT !.v_unitigs[id_a + 1] = g.v_unitigs[id_b + 1],
                       !.v_unitigs[id_b + 1] = g.v_unitigs[id_a + 1]]}})
              : shift_id_unitig_b \in {BitOr(id_b * ID_SHIFT, IF isShort THEN MASK_CONTIG_TYPE ELSE 0)}})
         : shift_id_unitig_a \in {BitOr(id_a * ID_SHIFT, IF isShort THEN MASK_CONTIG_TYPE ELSE 0)}})

\* CompressedCoverage::isFull of a k-mer and of a unitig
isFull(cov) == cov = cov_full

ccov_isFull(ccov) == \A i \in 1..Len(ccov) : isFull(ccov[i])

\* CompressedCoverage::cover(start, end): one more observation of each k-mer
\* of the range, up to cov_full
cover(cov) == IF cov < cov_full THEN cov + 1 ELSE cov

ccov_cover(ccov, start, end) ==
    [i \in 1..Len(ccov) |-> IF start + 1 <= i /\ i <= end + 1 THEN cover(ccov[i]) ELSE ccov[i]]

RECURSIVE splittingVector_from(_, _, _, _)
splittingVector_from(ccov, i, start, sp) ==
    IF i > Len(ccov)
    THEN IF start >= 0 THEN Append(sp, <<start, Len(ccov)>>) ELSE sp
    ELSE IF isFull(ccov[i])
    THEN splittingVector_from(ccov, i + 1, IF start >= 0 THEN start ELSE i - 1, sp)
    ELSE splittingVector_from(ccov, i + 1, -1,
                              IF start >= 0 THEN Append(sp, <<start, i - 1>>) ELSE sp)

\* CompressedCoverage::splittingVector: the maximal runs [first, second) of
\* fully covered k-mers, in increasing position
splittingVector(ccov) == splittingVector_from(ccov, 1, -1, <<>>)

\* a split piece that keeps the zero coverage it was created with
initializeCoverage_skipped(u) == u

\* Unitig::initializeCoverage(true)
initializeCoverage(u) == [u EXCEPT !.ccov = [i \in DOMAIN @ |-> cov_full]]

\* void UnitigMapper::mapRead(const UnitigMap& cc)
mapRead(g, cc) ==
    IF cc.isEmpty THEN g
    ELSE IF cc.isShort
    THEN [g EXCEPT !.v_kmers[cc.pos_unitig + 1].second = cover(@)]
    ELSE IF cc.isAbundant
    THEN [g EXCEPT !.h_kmers_ccov.table[cc.pos_unitig + 1].second = cover(@)]
    ELSE [g EXCEPT !.v_unitigs[cc.pos_unitig + 1].ccov =
                       ccov_cover(@, cc.dist, cc.dist + cc.len - 1)]

RECURSIVE splitUnitig_pieces(_, _, _, _, _)
\* for (sit = sp.begin(); sit != sp.end(); ++sit), lines 1490-1530;
\* st = [g, pos_v_unitigs, nxt_pos_insert, v_unitigs_sz, v_kmers_sz, first_long_unitig]
splitUnitig_pieces(st, str, sp, n, oob) ==
    IF n > Len(sp) THEN st
    ELSE The({The({The({The({splitUnitig_pieces(
              IF Len(split_str) = K
              THEN \* lines 1498-1506: a short piece, abundant or not
                   IF a.isAbundant
                   THEN [st EXCEPT !.g = [a.g EXCEPT
                            !.h_kmers_ccov.table[KHT_find(a.g.h_kmers_ccov,
                                                          rep(StrVal(split_str))) + 1].second
                                = cov_full]]
                   ELSE [st EXCEPT !.g = [a.g EXCEPT
                                             !.v_kmers[st.v_kmers_sz + 1].second = cov_full],
                                   !.v_kmers_sz = @ + 1]
              ELSE IF st.first_long_unitig
              THEN \* lines 1507-1520: the first long piece takes the unitig's slot
                   [st EXCEPT !.g = [a.g EXCEPT !.v_unitigs[st.pos_v_unitigs + 1] =
                                                    initializeCoverage(@)],
                              !.first_long_unitig = FALSE]
              ELSE \* lines 1521-1529: a later long piece goes to the end
                   [st EXCEPT !.g = [a.g EXCEPT !.v_unitigs[st.nxt_pos_insert + 1] =
                                                    initializeCoverage(@)],
                              !.nxt_pos_insert = @ + 1],
              str, sp, n + 1, oob)
         : a \in {addUnitig(g_del, split_str, slot)}})
         : g_del \in {IF Len(split_str) # K /\ st.first_long_unitig
                      THEN deleteUnitig(st.g, FALSE, FALSE, st.pos_v_unitigs, oob)
                      ELSE st.g}})
         : slot \in {IF Len(split_str) = K THEN st.v_kmers_sz
                     ELSE IF st.first_long_unitig THEN st.pos_v_unitigs
                     ELSE st.nxt_pos_insert}})
         : split_str \in {SubSeq(str, sp[n][1] + 1, sp[n][2] + K - 1)}})

\* bool UnitigMapper::splitUnitig(pos_v_unitigs, nxt_pos_insert_v_unitigs, v_unitigs_sz,
\* v_kmers_sz, sp): [st, deleted], st as in splitUnitig_pieces
splitUnitig(st0, sp, oob) ==
    The({IF st.first_long_unitig
        THEN \* lines 1535-1551: no long piece: the slot goes to the end and is deleted
             The({The({[st |-> [st EXCEPT
                             !.g = deleteUnitig(g_swap, FALSE, FALSE, nxt, oob),
                             !.nxt_pos_insert = nxt,
                             !.pos_v_unitigs =
                                 IF st.pos_v_unitigs # nxt /\ nxt >= st.v_unitigs_sz
                                 THEN @ + 1 ELSE @,
                             !.v_unitigs_sz =
                                 IF st.pos_v_unitigs # nxt /\ nxt >= st.v_unitigs_sz
                                 THEN @ ELSE @ - 1],
                  deleted |-> sp = <<>>]
                       : g_swap \in {IF st.pos_v_unitigs # nxt
                 THEN swapUnitigs(st.g, FALSE, st.pos_v_unitigs, nxt)
                 ELSE st.g}})
                  : nxt \in {st.nxt_pos_insert - 1}})
        ELSE [st |-> [st EXCEPT !.pos_v_unitigs = @ + 1], deleted |-> sp = <<>>]
         : st \in {splitUnitig_pieces([st0 EXCEPT !.first_long_unitig = TRUE],
                           st0.g.v_unitigs[st0.pos_v_unitigs + 1].seq, sp, 1, oob)}})

RECURSIVE splitAllUnitigs_abundant(_, _, _)
\* for (it = h_kmers_ccov.begin(); it != h_kmers_ccov.end(); it++), lines 1423-1430:
\* [g, deleted]
splitAllUnitigs_abundant(r, h, oob) ==
    IF h >= r.g.h_kmers_ccov.size_ THEN r
    ELSE IF HT_isReal(r.g.h_kmers_ccov, h) /\ ~isFull(r.g.h_kmers_ccov.table[h + 1].second)
    THEN The({splitAllUnitigs_abundant(r1, h + 1, oob)
              : r1 \in {[g |-> deleteUnitig(r.g, FALSE, TRUE, h, oob), deleted |-> r.deleted + 1]}})
    ELSE splitAllUnitigs_abundant(r, h + 1, oob)

RECURSIVE splitAllUnitigs_kmers(_, _, _, _)
\* for (i = 0; i < v_kmers_sz;), lines 1432-1445: [g, v_kmers_sz, deleted]
splitAllUnitigs_kmers(r, i, v_kmers_sz, oob) ==
    IF i >= v_kmers_sz THEN [g |-> r.g, v_kmers_sz |-> v_kmers_sz, deleted |-> r.deleted]
    ELSE IF ~isFull(r.g.v_kmers[i + 1].second)
    THEN The({The({splitAllUnitigs_kmers(r1, i, v_kmers_sz - 1, oob)
                   : r1 \in {[g |-> deleteUnitig(g1, TRUE, FALSE, v_kmers_sz - 1, oob),
              deleted |-> r.deleted + 1]}})
              : g1 \in {IF i # v_kmers_sz - 1 THEN swapUnitigs(r.g, TRUE, i, v_kmers_sz - 1)
             ELSE r.g}})
    ELSE splitAllUnitigs_kmers(r, i + 1, v_kmers_sz, oob)

RECURSIVE splitAllUnitigs_unitigs(_, _, _, _)
\* for (i = 0; i < v_unitigs_sz;), lines 1447-1461; st as in splitUnitig_pieces
splitAllUnitigs_unitigs(st, split, deleted, oob) ==
    IF st.pos_v_unitigs >= st.v_unitigs_sz
    THEN [st |-> st, split |-> split, deleted |-> deleted]
    ELSE IF ~ccov_isFull(st.g.v_unitigs[st.pos_v_unitigs + 1].ccov)
    THEN The({splitAllUnitigs_unitigs(r.st, IF r.deleted THEN split ELSE split + 1,
                                         IF r.deleted THEN deleted + 1 ELSE deleted, oob)
              : r \in {splitUnitig(st, splittingVector(st.g.v_unitigs[st.pos_v_unitigs + 1].ccov), oob)}})
    ELSE splitAllUnitigs_unitigs([st EXCEPT !.pos_v_unitigs = @ + 1], split, deleted, oob)

\* pair<size_t, size_t> UnitigMapper::splitAllUnitigs(): [g, split, deleted]
splitAllUnitigs(g, oob) ==
    The({The({The({[g |-> [ru.st.g EXCEPT !.v_unitigs = IF ru.st.nxt_pos_insert < Len(@)
                                             THEN SubSeq(@, 1, ru.st.nxt_pos_insert) ELSE @,
                               !.v_kmers = IF ru.st.v_kmers_sz < Len(@)
                                           THEN SubSeq(@, 1, ru.st.v_kmers_sz) ELSE @],
         split |-> ru.split, deleted |-> ru.deleted]
                   : ru \in {splitAllUnitigs_unitigs(
            [g |-> rk.g, pos_v_unitigs |-> 0, nxt_pos_insert |-> Len(g.v_unitigs),
             v_unitigs_sz |-> Len(g.v_unitigs), v_kmers_sz |-> rk.v_kmers_sz,
             first_long_unitig |-> TRUE],
            0, rk.deleted, oob)}})
              : rk \in {splitAllUnitigs_kmers(ra, 0, Len(g.v_kmers), oob)}})
         : ra \in {splitAllUnitigs_abundant([g |-> g, deleted |-> 0], 0, oob)}})

RECURSIVE jump(_, _, _, _, _)
\* CompressedSequence::jump(s, i, pos, reversed): how many characters of s
\* from i on agree with the sequence from pos on, or, reversed, with the
\* complement of the sequence from pos backwards
jump(seq, s, i, pos, reversed) ==
    IF i >= Len(s) \/ pos < 0 \/ pos >= Len(seq) THEN 0
    ELSE IF reversed
    THEN IF s[i + 1] = 3 - seq[pos + 1] THEN 1 + jump(seq, s, i + 1, pos - 1, TRUE) ELSE 0
    ELSE IF s[i + 1] = seq[pos + 1] THEN 1 + jump(seq, s, i + 1, pos + 1, FALSE) ELSE 0

\* UnitigMap UnitigMapper::findUnitig(const Kmer& km, const string& s, size_t pos) const
findUnitig(g, km, s, pos) ==
    The({IF ~cc.ub /\ ~cc.isEmpty /\ ~cc.isShort /\ ~cc.isAbundant
        THEN The({UnitigMap(cc.pos_unitig, cc.pos_min,
                               IF cc.strand THEN cc.dist ELSE cc.dist - (jlen - 1),
                               jlen, cc.size, FALSE, FALSE, cc.strand)
                  : jlen \in {IF cc.strand
                 THEN jump(g.v_unitigs[cc.pos_unitig + 1].seq, s, pos, cc.dist, FALSE) - K + 1
                 ELSE jump(g.v_unitigs[cc.pos_unitig + 1].seq, s, pos, cc.dist + K - 1, TRUE)
                      - K + 1}})
        ELSE cc
         : cc \in {find(g, km, FALSE)}})

\* the default constructors of the two tables
NewUnitigMapper ==
    [hmap_min_unitigs |->
         HT_init_table([table |-> <<>>, size_ |-> 0, pop |-> 0, num_empty |-> 0,
                        empty_val |-> [first |-> EmptyKey, second |-> <<>>],
                        deleted |-> [first |-> DeletedKey, second |-> <<>>]],
                       DefaultTableSize),
     h_kmers_ccov |->
         HT_init_table([table |-> <<>>, size_ |-> 0, pop |-> 0, num_empty |-> 0,
                        empty_val |-> [first |-> EmptyKey, second |-> 0],
                        deleted |-> [first |-> DeletedKey, second |-> 0]],
                       DefaultTableSize),
     v_unitigs |-> <<>>, v_kmers |-> <<>>, ub |-> FALSE]

\* Kmer::forwardBase(b): the k-mer that follows this one with the base b
forwardBase(km, b) == (km * 4 + b) % (4 ^ K)

\* Kmer::backwardBase(b): the k-mer that precedes this one with the base b
backwardBase(km, b) == (km \div 4) + b * (4 ^ (K - 1))

\* the first k-mer of the unitig a UnitigMap names, as stored
headKmer(g, cm) ==
    IF cm.isShort THEN g.v_kmers[cm.pos_unitig + 1].first
    ELSE IF cm.isAbundant THEN g.h_kmers_ccov.table[cm.pos_unitig + 1].first
    ELSE KmerAt(g.v_unitigs[cm.pos_unitig + 1].seq, 0)

\* the last k-mer of the long unitig a UnitigMap names
lastKmer(g, cm) ==
    KmerAt(g.v_unitigs[cm.pos_unitig + 1].seq, Len(g.v_unitigs[cm.pos_unitig + 1].seq) - K)

RECURSIVE checkJoin_count(_, _, _, _)
\* for (i = 0; i < 4; i++) of checkJoin (lines 1811-1830 and 1854-1871): the
\* extremities of unitigs among the four k-mers that follow km, counted up
\* to 2, and the first of them: [count, cand, cm_cand, ub]
checkJoin_count(g, km, i, r) ==
    IF i = 4 \/ r.count > 1 \/ r.ub THEN r
    ELSE The({IF cm_cand_tmp.ub THEN [r EXCEPT !.ub = TRUE]
             ELSE IF cm_cand_tmp.isEmpty THEN checkJoin_count(g, km, i + 1, r)
             ELSE IF r.count = 0
             THEN checkJoin_count(g, km, i + 1,
                                  [count |-> 1, cand |-> forwardBase(km, i),
                                   cm_cand |-> cm_cand_tmp, ub |-> FALSE])
             ELSE [r EXCEPT !.count = 2]
              : cm_cand_tmp \in {find(g, forwardBase(km, i), TRUE)}})

\* bool UnitigMapper::checkJoin(const Kmer& a, const UnitigMap& cm_a, Kmer& b):
\* [ret, b, ub], b the caller's k-mer where the code does not assign it
checkJoin(g, a, cm_a, b) ==
    The({IF fw.ub THEN [ret |-> FALSE, b |-> b, ub |-> TRUE]
        ELSE IF fw.count = 1 /\ headKmer(g, fw.cm_cand) # headKmer(g, cm_a)
        THEN The({IF bw.ub THEN [ret |-> FALSE, b |-> b, ub |-> TRUE]
                 ELSE IF bw.count = 1
                 THEN IF headKmer(g, fw.cm_cand) = fw.cand
                      THEN [ret |-> TRUE, b |-> fw.cand, ub |-> FALSE]
                      ELSE IF twin(IF fw.cm_cand.isShort \/ fw.cm_cand.isAbundant
                                   THEN headKmer(g, fw.cm_cand)
                                   ELSE lastKmer(g, fw.cm_cand)) = fw.cand
                      THEN [ret |-> TRUE, b |-> fw.cand, ub |-> FALSE]
                      ELSE [ret |-> TRUE, b |-> b, ub |-> FALSE]
                 ELSE [ret |-> FALSE, b |-> b, ub |-> FALSE]
                  : bw \in {checkJoin_count(g, twin(fw.cand), 0,
                                 [count |-> 0, cand |-> 0,
                                  cm_cand |-> EmptyUnitigMap(0), ub |-> FALSE])}})
        ELSE [ret |-> FALSE, b |-> b, ub |-> FALSE]
         : fw \in {checkJoin_count(g, a, 0, [count |-> 0, cand |-> 0,
                                  cm_cand |-> EmptyUnitigMap(0), ub |-> FALSE])}})

\* Kmer(): the k-mer a caller of checkJoin passes for b
Kmer_new == 0

\* if ((joins.find(a) == joins.end()) && checkJoin(a, cm, fw))
\*     joins.insert(make_pair(fw.twin(), a)), lines 1581-1582: [joins, fw, ub].
\* The scans declare fw and bw anew for each unitig (line 1577); the loop over
\* v_joins has one fw for all its calls (line 1613)
joinAllUnitigs_candidate(g, st, a, cm, guarded) ==
    IF st.ub \/ (guarded /\ KHT_find(st.joins, a) # st.joins.size_) THEN st
    ELSE The({IF r.ub THEN [st EXCEPT !.ub = TRUE]
             ELSE IF r.ret
             THEN [st EXCEPT !.joins = KHT_insert(@, [first |-> twin(r.b), second |-> a]).t,
                             !.fw = IF guarded THEN @ ELSE r.b]
             ELSE st
              : r \in {checkJoin(g, a, cm, IF guarded THEN Kmer_new ELSE st.fw)}})

\* the two ends of one unitig, in the order the scans try them: its tail,
\* then the twin of its head
joinAllUnitigs_ends(tail, head_twin, cm) ==
    <<[a |-> tail, cm |-> cm], [a |-> head_twin, cm |-> cm]>>

RECURSIVE joinAllUnitigs_abundant(_, _)
\* for (it_ccov = h_kmers_ccov.begin(); ...), lines 1573-1583: the ends tried
joinAllUnitigs_abundant(g, h) ==
    IF h >= g.h_kmers_ccov.size_ THEN <<>>
    ELSE (IF HT_isReal(g.h_kmers_ccov, h)
          THEN joinAllUnitigs_ends(g.h_kmers_ccov.table[h + 1].first,
                                   twin(g.h_kmers_ccov.table[h + 1].first),
                                   UnitigMap(h, 0, 0, 1, K, FALSE, TRUE, TRUE))
          ELSE <<>>) \o joinAllUnitigs_abundant(g, h + 1)

RECURSIVE joinAllUnitigs_short(_, _)
\* for (i = 0; i != v_kmers_size; i++), lines 1585-1595: the ends tried
joinAllUnitigs_short(g, i) ==
    IF i >= Len(g.v_kmers) THEN <<>>
    ELSE joinAllUnitigs_ends(g.v_kmers[i + 1].first, twin(g.v_kmers[i + 1].first),
                             UnitigMap(i, 0, 0, 1, K, TRUE, FALSE, TRUE))
         \o joinAllUnitigs_short(g, i + 1)

RECURSIVE joinAllUnitigs_long(_, _)
\* for (i = 0; i != v_unitigs_size; i++), lines 1597-1609: the ends tried;
\* the loop reads the sequence of every slot, so it stops at a null one
joinAllUnitigs_long(g, i) ==
    IF i >= Len(g.v_unitigs) \/ g.v_unitigs[i + 1] = NULL THEN <<>>
    ELSE joinAllUnitigs_ends(KmerAt(g.v_unitigs[i + 1].seq, Len(g.v_unitigs[i + 1].seq) - K),
                             twin(KmerAt(g.v_unitigs[i + 1].seq, 0)),
                             UnitigMap(i, 0, 0, 1, Len(g.v_unitigs[i + 1].seq),
                                       FALSE, FALSE, TRUE))
         \o joinAllUnitigs_long(g, i + 1)

RECURSIVE joinAllUnitigs_hints(_, _, _)
\* for (auto km : *v_joins), lines 1615-1635: the ends tried, [ends, ub]
joinAllUnitigs_hints(g, v_joins, i) ==
    IF i > Len(v_joins) THEN [ends |-> <<>>, ub |-> FALSE]
    ELSE The({IF cm.ub THEN [ends |-> <<>>, ub |-> TRUE]
             ELSE The({[rest EXCEPT !.ends =
                          (IF cm.isEmpty THEN <<>>
                           ELSE IF ~cm.isShort /\ ~cm.isAbundant
                           THEN <<[a |-> IF (cm.dist = 0 /\ cm.strand)
                                            \/ (cm.dist # 0 /\ ~cm.strand)
                                         THEN twin(v_joins[i]) ELSE v_joins[i],
                                   cm |-> cm]>>
                           ELSE joinAllUnitigs_ends(v_joins[i], twin(v_joins[i]), cm))
                          \o @]
                       : rest \in {joinAllUnitigs_hints(g, v_joins, i + 1)}})
              : cm \in {find(g, v_joins[i], TRUE)}})

RECURSIVE joinAllUnitigs_candidates(_, _, _, _, _)
\* the ends in turn, each through lines 1581-1582; an undefined step ends it
joinAllUnitigs_candidates(g, st, ends, i, guarded) ==
    IF i > Len(ends) \/ st.ub THEN st
    ELSE The({joinAllUnitigs_candidates(g, st1, ends, i + 1, guarded)
              : st1 \in {joinAllUnitigs_candidate(g, st, ends[i].a, ends[i].cm, guarded)}})

\* (ccov.isFull() ? ccov.cov_full : ccov.covAt(0)) of a unitig of one k-mer
covOfKmer(g, cm) ==
    IF cm.isShort THEN g.v_kmers[cm.pos_unitig + 1].second
    ELSE g.h_kmers_ccov.table[cm.pos_unitig + 1].second

\* a join that leaves the joined unitigs of one k-mer in their stores
joinAllUnitigs_drop_kept(st, cm, other, oob) ==
    [g |-> st.g, v_kmers_size |-> st.v_kmers_size, other |-> other]

\* lines 1715-1728 and 1730-1743: a unitig of one k-mer that is joined leaves
\* its store; a short one goes to the end of v_kmers first.  cm is the
\* unitig, other the other unitig of the join: [g, v_kmers_size, other]
joinAllUnitigs_drop(st, cm, other, oob) ==
    IF ~cm.isShort /\ ~cm.isAbundant
    THEN [g |-> st.g, v_kmers_size |-> st.v_kmers_size, other |-> other]
    ELSE The({The({[g |-> deleteUnitig(g1, cm.isShort, cm.isAbundant,
                                 IF cm.isShort THEN sz ELSE cm.pos_unitig, oob),
              v_kmers_size |-> sz,
              other |-> IF cm.isShort /\ cm.pos_unitig # sz
                           /\ other.isShort /\ sz = other.pos_unitig
                        THEN [other EXCEPT !.pos_unitig = cm.pos_unitig]
                        ELSE other]
                   : g1 \in {IF cm.isShort /\ cm.pos_unitig # sz
             THEN swapUnitigs(st.g, TRUE, cm.pos_unitig, sz) ELSE st.g}})
              : sz \in {IF cm.isShort THEN st.v_kmers_size - 1 ELSE st.v_kmers_size}})

\* lines 1745-1776: the joined sequence takes a slot of v_unitigs:
\* [g, v_unitigs_size, slot]
joinAllUnitigs_store(g, v_unitigs_size, cmHead, cmTail, len_k_head, len_k_tail, joinSeq, oob) ==
    \* both long: the tail goes to the end of v_unitigs and is deleted there
    The({The({The({The({The({The({[g |-> addUnitig(g2, joinSeq, slot).g,
         v_unitigs_size |-> IF len_k_head /\ len_k_tail THEN v_unitigs_size + 1 ELSE sz,
         slot |-> slot]
                                  : g2 \in {IF len_k_head /\ len_k_tail THEN g1
        ELSE deleteUnitig(g1, FALSE, FALSE, slot, oob)}})
                             : g1 \in {IF ~len_k_head /\ ~len_k_tail
        THEN deleteUnitig(g0, FALSE, FALSE, sz, oob) ELSE g0}})
                        : g0 \in {IF swapped THEN swapUnitigs(g, FALSE, cmTail.pos_unitig, sz) ELSE g}})
                   : slot \in {IF len_k_head /\ len_k_tail THEN v_unitigs_size
        ELSE IF len_k_head THEN cmTail.pos_unitig
        ELSE IF swapped /\ sz = cmHead.pos_unitig THEN cmTail.pos_unitig
        ELSE cmHead.pos_unitig}})
              : swapped \in {~len_k_head /\ ~len_k_tail /\ cmTail.pos_unitig # sz}})
         : sz \in {IF ~len_k_head /\ ~len_k_tail THEN v_unitigs_size - 1 ELSE v_unitigs_size}})

\* lines 1642-1713 of one entry (tail.twin() -> head) of joins: the two
\* unitigs, their directions and the joined sequence.  The coverage sum of a
\* long unitig is kept by Unitig, so whether the sums of a join with a long
\* unitig reach cov_full * numKmers is the input full.
\* [kind], and for a join [cmHead, cmTail, len_k_head, len_k_tail, joinSeq,
\* tailSeq, isFull_new]; the kind is "assert" where the assertion of line
\* 1691 fails
joinAllUnitigs_plan(g, head, tail, full) ==
    The({The({IF cmHead.ub \/ cmTail.ub THEN [kind |-> "ub"]
        ELSE IF cmHead.isEmpty \/ cmTail.isEmpty THEN [kind |-> "skip"]
        ELSE IF headKmer(g, cmHead) = headKmer(g, cmTail) THEN [kind |-> "skip"]
        ELSE
        The({The({The({The({IF headDir = "none" \/ tailDir = "none" THEN [kind |-> "skip"]
        ELSE
        The({The({The({The({IF SubSeq(joinSeq, Len(joinSeq) - K + 2, Len(joinSeq)) # SubSeq(tailSeq, 1, K - 1)
        THEN [kind |-> "assert"]
        ELSE [kind |-> "join", cmHead |-> cmHead, cmTail |-> cmTail,
              len_k_head |-> len_k_head, len_k_tail |-> len_k_tail,
              joinSeq |-> joinSeq, tailSeq |-> tailSeq,
              isFull_new |-> IF len_k_head /\ len_k_tail
                             THEN covOfKmer(g, cmHead) + covOfKmer(g, cmTail)
                                  >= cov_full * 2
                             ELSE full]
                            : tailSeq \in {IF tailDir = "fw" THEN tailStr ELSE twinStr(tailStr)}})
                       : joinSeq \in {IF headDir = "fw" THEN headStr ELSE twinStr(headStr)}})
                  : tailStr \in {IF len_k_tail THEN KmerToString(headKmer(g, cmTail))
            ELSE g.v_unitigs[cmTail.pos_unitig + 1].seq}})
             : headStr \in {IF len_k_head THEN KmerToString(headKmer(g, cmHead))
            ELSE g.v_unitigs[cmHead.pos_unitig + 1].seq}})
                            : tailDir \in {IF tail = headKmer(g, cmTail) THEN "fw"
            ELSE IF len_k_tail
            THEN IF twin(tail) = headKmer(g, cmTail) THEN "bw" ELSE "none"
            ELSE IF twin(tail) = lastKmer(g, cmTail) THEN "bw"
            ELSE "none"}})
                       : headDir \in {IF len_k_head /\ head = headKmer(g, cmHead) THEN "fw"
            ELSE IF ~len_k_head /\ head = lastKmer(g, cmHead) THEN "fw"
            ELSE IF twin(head) = headKmer(g, cmHead) THEN "bw"
            ELSE "none"}})
                  : len_k_tail \in {cmTail.isShort \/ cmTail.isAbundant}})
             : len_k_head \in {cmHead.isShort \/ cmHead.isAbundant}})
              : cmTail \in {find(g, tail, TRUE)}})
         : cmHead \in {find(g, head, TRUE)}})

\* lines 1715-1782 of the entry: the two unitigs leave their stores and the
\* joined sequence takes its slot
joinAllUnitigs_apply(st, p, oob) ==
    The({The({The({[g |-> IF p.isFull_new
               THEN [a.g EXCEPT !.v_unitigs[a.slot + 1].ccov =
                                    [i \in DOMAIN @ |-> cov_full]]
               ELSE a.g,
         v_unitigs_size |-> a.v_unitigs_size,
         v_kmers_size |-> d2.v_kmers_size,
         joined |-> st.joined + 1,
         assert |-> FALSE,
         ub |-> FALSE]
                   : a \in {joinAllUnitigs_store(d2.g, st.v_unitigs_size, p.cmHead, d1.other,
                             p.len_k_head, p.len_k_tail,
                             p.joinSeq \o SubSeq(p.tailSeq, K, Len(p.tailSeq)), oob)}})
              : d2 \in {joinAllUnitigs_drop(d1, d1.other, p.cmHead, oob)}})
         : d1 \in {joinAllUnitigs_drop(st, p.cmHead, p.cmTail, oob)}})

\* a joinAllUnitigs that finds the pairs and joins none of them
joinAllUnitigs_join_skipped(st, head, tail, oob, full) == st

\* one entry (tail.twin() -> head) of joins, lines 1640-1784.
\* st = [g, v_unitigs_size, v_kmers_size, joined, assert, ub]; a failed
\* assertion ends the program
joinAllUnitigs_join(st, head, tail, oob, full) ==
    The({IF st.ub \/ p.kind = "ub" THEN [st EXCEPT !.ub = TRUE]
        ELSE IF p.kind = "assert" THEN [st EXCEPT !.ub = TRUE, !.assert = TRUE]
        ELSE IF p.kind = "skip" THEN st
        ELSE joinAllUnitigs_apply(st, p, oob)
         : p \in {joinAllUnitigs_plan(st.g, head, tail, full)}})

RECURSIVE joinAllUnitigs_loop(_, _, _, _, _)
\* for (it = joins.begin(); it != joins.end(); it++), lines 1640-1784
joinAllUnitigs_loop(st, joins, h, oob, full) ==
    IF h >= joins.size_ \/ st.ub THEN st
    ELSE IF HT_isReal(joins, h)
    THEN The({joinAllUnitigs_loop(st1, joins, h + 1, oob, full)
              : st1 \in {joinAllUnitigs_join(st, joins.table[h + 1].second, twin(joins.table[h + 1].first),
                                 oob, full)}})
    ELSE joinAllUnitigs_loop(st, joins, h + 1, oob, full)

\* a joinAllUnitigs that leaves v_unitigs and v_kmers at their old sizes
joinAllUnitigs_unresized(g, v_joins, oob, full) ==
    The({The({The({IF c.ub THEN [g |-> g, joined |-> 0, assert |-> FALSE, ub |-> TRUE]
        ELSE The({[g |-> st.g,
                  joined |-> st.joined, assert |-> st.assert, ub |-> st.ub]
                  : st \in {joinAllUnitigs_loop([g |-> g, v_unitigs_size |-> Len(g.v_unitigs),
                                      v_kmers_size |-> Len(g.v_kmers), joined |-> 0,
                                      assert |-> FALSE, ub |-> FALSE],
                                     c.joins, 0, oob, full)}})
                   : c \in {IF e.ub THEN [st0 EXCEPT !.ub = TRUE]
        ELSE joinAllUnitigs_candidates(g, st0, e.ends, 1, v_joins.null)}})
              : e \in {IF v_joins.null
        THEN [ends |-> joinAllUnitigs_abundant(g, 0) \o joinAllUnitigs_short(g, 0)
                       \o joinAllUnitigs_long(g, 0),
              ub |-> \E i \in DOMAIN g.v_unitigs : g.v_unitigs[i] = NULL]
        ELSE joinAllUnitigs_hints(g, v_joins.kmers, 1)}})
         : st0 \in {[joins |-> NewUnitigMapper.h_kmers_ccov, fw |-> Kmer_new,
                     ub |-> FALSE]}})

\* size_t UnitigMapper::joinAllUnitigs(vector<Kmer>* v_joins): [g, joined, assert, ub];
\* v_joins = [null, kmers]
joinAllUnitigs(g, v_joins, oob, full) ==
    The({The({The({IF c.ub THEN [g |-> g, joined |-> 0, assert |-> FALSE, ub |-> TRUE]
        ELSE The({[g |-> [st.g EXCEPT
                            !.v_unitigs = IF st.v_unitigs_size < Len(@)
                                          THEN SubSeq(@, 1, st.v_unitigs_size) ELSE @,
                            !.v_kmers = IF st.v_kmers_size < Len(@)
                                        THEN SubSeq(@, 1, st.v_kmers_size) ELSE @],
                  joined |-> st.joined, assert |-> st.assert, ub |-> st.ub]
                  : st \in {joinAllUnitigs_loop([g |-> g, v_unitigs_size |-> Len(g.v_unitigs),
                                      v_kmers_size |-> Len(g.v_kmers), joined |-> 0,
                                      assert |-> FALSE, ub |-> FALSE],
                                     c.joins, 0, oob, full)}})
                   : c \in {IF e.ub THEN [st0 EXCEPT !.ub = TRUE]
        ELSE joinAllUnitigs_candidates(g, st0, e.ends, 1, v_joins.null)}})
              : e \in {IF v_joins.null
        THEN [ends |-> joinAllUnitigs_abundant(g, 0) \o joinAllUnitigs_short(g, 0)
                       \o joinAllUnitigs_long(g, 0),
              ub |-> \E i \in DOMAIN g.v_unitigs : g.v_unitigs[i] = NULL]
        ELSE joinAllUnitigs_hints(g, v_joins.kmers, 1)}})
         : st0 \in {[joins |-> NewUnitigMapper.h_kmers_ccov, fw |-> Kmer_new,
                     ub |-> FALSE]}})

RECURSIVE removeUnitigs_count(_, _, _, _, _, _, _)
\* for (i = 0; (i != 4) && (nb <= lim); ++i), lines 2286-2297 and 2309-2320:
\* the extremities of unitigs among the four neighbours of km on one side,
\* and the last of them: [nb, km, ub]
removeUnitigs_count(g, km, fw, lim, clipTips, i, r) ==
    IF i = 4 \/ r.nb > lim \/ r.ub THEN r
    ELSE The({The({IF cm.ub THEN [r EXCEPT !.ub = TRUE]
             ELSE IF ~cm.isEmpty
             THEN removeUnitigs_count(g, km, fw, lim, clipTips, i + 1,
                                      [nb |-> r.nb + 1, km |-> IF clipTips THEN n ELSE r.km,
                                       ub |-> FALSE])
             ELSE removeUnitigs_count(g, km, fw, lim, clipTips, i + 1, r)
                   : cm \in {find(g, n, TRUE)}})
              : n \in {IF fw THEN forwardBase(km, i) ELSE backwardBase(km, i)}})

\* a test that removes every unitig of degree <= lim, whatever the flags
removeUnitigs_test_upToLim(g, head, tail, rmIsolated, clipTips, km) ==
    The({The({IF p.ub THEN [remove |-> FALSE, push |-> FALSE, km |-> p.km, ub |-> TRUE]
        ELSE IF p.nb <= lim
        THEN The({IF n.ub THEN [remove |-> FALSE, push |-> FALSE, km |-> n.km, ub |-> TRUE]
                 ELSE IF p.nb + n.nb <= lim
                 THEN [remove |-> TRUE, push |-> clipTips /\ p.nb + n.nb = lim,
                       km |-> n.km, ub |-> FALSE]
                 ELSE [remove |-> FALSE, push |-> FALSE, km |-> n.km, ub |-> FALSE]
                  : n \in {removeUnitigs_count(g, tail, TRUE, lim, clipTips, 0,
                                     [nb |-> 0, km |-> p.km, ub |-> FALSE])}})
        ELSE [remove |-> FALSE, push |-> FALSE, km |-> p.km, ub |-> FALSE]
              : p \in {removeUnitigs_count(g, head, FALSE, lim, clipTips, 0,
                            [nb |-> 0, km |-> km, ub |-> FALSE])}})
         : lim \in {IF clipTips THEN 1 ELSE 0}})

\* the test of one unitig with the ends head and tail, lines 2275-2336:
\* [remove, push, km, ub], km the local variable of removeUnitigs
removeUnitigs_test(g, head, tail, rmIsolated, clipTips, km) ==
    The({The({IF p.ub THEN [remove |-> FALSE, push |-> FALSE, km |-> p.km, ub |-> TRUE]
        ELSE IF p.nb <= lim
        THEN The({IF n.ub THEN [remove |-> FALSE, push |-> FALSE, km |-> n.km, ub |-> TRUE]
                 ELSE IF \/ rmIsolated /\ clipTips /\ p.nb + n.nb <= lim
                         \/ ~(rmIsolated /\ clipTips) /\ p.nb + n.nb = lim
                 THEN [remove |-> TRUE, push |-> clipTips /\ p.nb + n.nb = lim,
                       km |-> n.km, ub |-> FALSE]
                 ELSE [remove |-> FALSE, push |-> FALSE, km |-> n.km, ub |-> FALSE]
                  : n \in {removeUnitigs_count(g, tail, TRUE, lim, clipTips, 0,
                                     [nb |-> 0, km |-> p.km, ub |-> FALSE])}})
        ELSE [remove |-> FALSE, push |-> FALSE, km |-> p.km, ub |-> FALSE]
              : p \in {removeUnitigs_count(g, head, FALSE, lim, clipTips, 0,
                            [nb |-> 0, km |-> km, ub |-> FALSE])}})
         : lim \in {IF clipTips THEN 1 ELSE 0}})

RECURSIVE removeUnitigs_long(_, _, _, _)
\* for (j = 0; j < v_unitigs_sz; j++), lines 2271-2336;
\* st = [g, v_unitigs_sz, v_kmers_sz, marked, removed, v, km, ub]
removeUnitigs_long(st, j, rmIsolated, clipTips) ==
    IF j >= st.v_unitigs_sz \/ st.ub THEN st
    ELSE IF st.g.v_unitigs[j + 1] = NULL THEN [st EXCEPT !.ub = TRUE]
    ELSE IF Len(st.g.v_unitigs[j + 1].seq) - K + 1 < K
    THEN The({IF r.ub THEN [st EXCEPT !.ub = TRUE]
             ELSE IF r.remove
             THEN The({removeUnitigs_long(
                          [st EXCEPT !.removed = @ + 1, !.v_unitigs_sz = sz, !.km = r.km,
                                     !.g = IF j # sz THEN swapUnitigs(@, FALSE, j, sz) ELSE @,
                                     !.v = IF r.push THEN Append(@, r.km) ELSE @],
                          IF j # sz THEN j ELSE j + 1, rmIsolated, clipTips)
                       : sz \in {st.v_unitigs_sz - 1}})
             ELSE removeUnitigs_long([st EXCEPT !.km = r.km], j + 1, rmIsolated, clipTips)
              : r \in {removeUnitigs_test(st.g, KmerAt(st.g.v_unitigs[j + 1].seq, 0),
                                KmerAt(st.g.v_unitigs[j + 1].seq,
                                       Len(st.g.v_unitigs[j + 1].seq) - K),
                                rmIsolated, clipTips, st.km)}})
    ELSE removeUnitigs_long(st, j + 1, rmIsolated, clipTips)

RECURSIVE removeUnitigs_short(_, _, _, _)
\* for (j = 0; j < v_kmers_sz; j++), lines 2338-2396
removeUnitigs_short(st, j, rmIsolated, clipTips) ==
    IF j >= st.v_kmers_sz \/ st.ub THEN st
    ELSE The({IF r.ub THEN [st EXCEPT !.ub = TRUE]
             ELSE IF r.remove
             THEN The({removeUnitigs_short(
                          [st EXCEPT !.removed = @ + 1, !.v_kmers_sz = sz, !.km = r.km,
                                     !.g = IF j # sz THEN swapUnitigs(@, TRUE, j, sz) ELSE @,
                                     !.v = IF r.push THEN Append(@, r.km) ELSE @],
                          IF j # sz THEN j ELSE j + 1, rmIsolated, clipTips)
                       : sz \in {st.v_kmers_sz - 1}})
             ELSE removeUnitigs_short([st EXCEPT !.km = r.km], j + 1, rmIsolated, clipTips)
              : r \in {removeUnitigs_test(st.g, st.g.v_kmers[j + 1].first, st.g.v_kmers[j + 1].first,
                                rmIsolated, clipTips, st.km)}})

RECURSIVE removeUnitigs_abundant(_, _, _, _)
\* for (it = h_kmers_ccov.begin(); ...), lines 2398-2449: it->second =
\* CompressedCoverage() marks the k-mer, here as a member of marked
removeUnitigs_abundant(st, h, rmIsolated, clipTips) ==
    IF h >= st.g.h_kmers_ccov.size_ \/ st.ub THEN st
    ELSE IF HT_isReal(st.g.h_kmers_ccov, h)
    THEN The({IF r.ub THEN [st EXCEPT !.ub = TRUE]
             ELSE IF r.remove
             THEN removeUnitigs_abundant(
                      [st EXCEPT !.removed = @ + 1, !.km = r.km,
                                 !.marked = @ \cup {h},
                                 !.v = IF r.push THEN Append(@, r.km) ELSE @],
                      h + 1, rmIsolated, clipTips)
             ELSE removeUnitigs_abundant([st EXCEPT !.km = r.km], h + 1, rmIsolated, clipTips)
              : r \in {removeUnitigs_test(st.g, st.g.h_kmers_ccov.table[h + 1].first,
                                st.g.h_kmers_ccov.table[h + 1].first,
                                rmIsolated, clipTips, st.km)}})
    ELSE removeUnitigs_abundant(st, h + 1, rmIsolated, clipTips)

RECURSIVE removeUnitigs_delete(_, _, _, _, _, _, _)
\* for (j = sz; j < size; j++) deleteUnitig(isShort, isAbundant, j), lines
\* 2451-2460; of the abundant k-mers those of marked
removeUnitigs_delete(g, isShort, isAbundant, j, end, marked, oob) ==
    IF j >= end THEN g
    ELSE IF ~isAbundant \/ j \in marked
    THEN removeUnitigs_delete(deleteUnitig(g, isShort, isAbundant, j, oob),
                              isShort, isAbundant, j + 1, end, marked, oob)
    ELSE removeUnitigs_delete(g, isShort, isAbundant, j + 1, end, marked, oob)

\* size_t UnitigMapper::removeUnitigs(bool rmIsolated, bool clipTips, vector<Kmer>& v):
\* [g, removed, v, ub]
removeUnitigs(g, rmIsolated, clipTips, v, oob) ==
    IF ~rmIsolated /\ ~clipTips THEN [g |-> g, removed |-> 0, v |-> v, ub |-> FALSE]
    ELSE
    The({The({The({IF st.ub THEN [g |-> g, removed |-> st.removed, v |-> st.v, ub |-> TRUE]
        ELSE
        The({The({The({The({[g |-> removeUnitigs_delete(g4, FALSE, TRUE, 0, g4.h_kmers_ccov.size_,
                                        st.marked, oob),
             removed |-> st.removed, v |-> st.v, ub |-> FALSE]
                            : g4 \in {[g3 EXCEPT !.v_kmers = SubSeq(@, 1, st.v_kmers_sz)]}})
                       : g3 \in {removeUnitigs_delete(g2, TRUE, FALSE, st.v_kmers_sz, Len(g2.v_kmers), {}, oob)}})
                  : g2 \in {[g1 EXCEPT !.v_unitigs = SubSeq(@, 1, st.v_unitigs_sz)]}})
             : g1 \in {removeUnitigs_delete(st.g, FALSE, FALSE, st.v_unitigs_sz, Len(st.g.v_unitigs),
                                 {}, oob)}})
                   : st \in {removeUnitigs_abundant(ss, 0, rmIsolated, clipTips)}})
              : ss \in {removeUnitigs_short(sl, 0, rmIsolated, clipTips)}})
         : sl \in {removeUnitigs_long([g |-> g, v_unitigs_sz |-> Len(g.v_unitigs),
                            v_kmers_sz |-> Len(g.v_kmers), marked |-> {}, removed |-> 0,
                            v |-> v, km |-> Kmer_new, ub |-> FALSE],
                           0, rmIsolated, clipTips)}})

\* lines 1944-1956 and 1981-1993 of check_fp_tips: the long unitig that holds
\* a neighbour of the tip is split where the tip attaches, unless that is at
\* one of its ends.  cm is the neighbour, bw tells the side: st as in splitUnitig
check_fp_tips_split(st, cm, bw, oob) ==
    The({IF dist # 0 /\ dist # cm.size - K + 1
        THEN splitUnitig([st EXCEPT !.pos_v_unitigs = cm.pos_unitig],
                         << <<0, dist>>, <<dist, cm.size - K + 1>> >>, oob).st
        ELSE st
         : dist \in {IF cm.strand = bw THEN cm.dist + 1 ELSE cm.dist}})

RECURSIVE check_fp_tips_side(_, _, _, _, _)
\* for (i = 0; (i < 4) && not_found; ++i), lines 1933-1961 over the k-mers
\* before km (bw), then lines 1970-1998 over those after it: [st, not_found, ub]
check_fp_tips_side(r, km, bw, i, oob) ==
    IF ~r.not_found \/ r.ub THEN r
    ELSE IF i = 4 THEN (IF bw THEN check_fp_tips_side(r, km, FALSE, 0, oob) ELSE r)
    ELSE The({IF cm.ub THEN [r EXCEPT !.ub = TRUE]
              ELSE IF ~cm.isEmpty /\ ~cm.isAbundant /\ ~cm.isShort
              THEN [st |-> check_fp_tips_split(r.st, cm, bw, oob), not_found |-> FALSE,
                    ub |-> FALSE]
              ELSE check_fp_tips_side(r, km, bw, i + 1, oob)
              : cm \in {find(r.st.g, IF bw THEN backwardBase(km, i) ELSE forwardBase(km, i),
                             FALSE)}})

RECURSIVE check_fp_tips_tips(_, _, _, _)
\* for (it = ignored_km_tips.begin(); it != ignored_km_tips.end(); it++), lines 1913-2000
check_fp_tips_tips(r, tips, h, oob) ==
    IF h >= tips.size_ \/ r.ub THEN r
    ELSE IF HT_isReal(tips, h)
    THEN The({IF cm.ub THEN [r EXCEPT !.ub = TRUE]
              ELSE IF ~cm.isEmpty
              THEN check_fp_tips_tips(
                       check_fp_tips_side([r EXCEPT !.not_found = TRUE],
                                          tips.table[h + 1].first, TRUE, 0, oob),
                       tips, h + 1, oob)
              ELSE check_fp_tips_tips(r, tips, h + 1, oob)
              : cm \in {find(r.st.g, tips.table[h + 1].first, TRUE)}})
    ELSE check_fp_tips_tips(r, tips, h + 1, oob)

\* void UnitigMapper::check_fp_tips(KmerHashTable<bool>& ignored_km_tips): [g, ub]
check_fp_tips(g, ignored_km_tips, oob) ==
    The({[g |-> [r.st.g EXCEPT
                   !.v_unitigs = IF r.st.nxt_pos_insert < Len(@)
                                 THEN SubSeq(@, 1, r.st.nxt_pos_insert) ELSE @,
                   !.v_kmers = IF r.st.v_kmers_sz < Len(@)
                               THEN SubSeq(@, 1, r.st.v_kmers_sz) ELSE @],
         ub |-> r.ub]
         : r \in {check_fp_tips_tips(
            [st |-> [g |-> g, pos_v_unitigs |-> 0, nxt_pos_insert |-> Len(g.v_unitigs),
                     v_unitigs_sz |-> Len(g.v_unitigs), v_kmers_sz |-> Len(g.v_kmers),
                     first_long_unitig |-> TRUE],
             not_found |-> TRUE, ub |-> FALSE],
            ignored_km_tips, 0, oob)}})

(***************************************************************************)
(* SpecGraph: a UnitigMapper driven by its callers.  Nucleotides are       *)
(* A = 0, C = 1, G = 2, T = 3.                                             *)
(***************************************************************************)
\* the caller makes at most MaxCalls calls
MaxCalls == 5

\* the longest sequence of the pool
MaxUnitigLen == 7

\* the unitig sequences the caller has: k-mers and longer unitigs
Pool ==
    { <<0, 1, 0, 1, 0>>,          \* ACACA
      <<2, 0, 0, 0, 3>>,          \* GAAAT
      <<0, 0, 0, 0, 0, 1>>,       \* AAAAAC
      <<1, 0, 0, 0, 2, 0, 0>> }   \* CAAAGAA

\* the reads the caller maps
Reads ==
    { <<3, 2, 3, 2, 3>>,          \* TGTGT, the twin of ACACA
      <<2, 0, 0, 0, 3>>,          \* GAAAT
      <<0, 0, 0, 0, 0, 1>>,       \* AAAAAC
      <<1, 0, 0, 0, 2>>,          \* CAAAG
      <<3, 3, 1, 3, 3, 3>> }      \* TTCTTT, the twin of AAAGAA

\* the canonical k-mers of a sequence
Kmers(seq) == {rep(KmerAt(seq, p)) : p \in 0..(Len(seq) - K)}

\* the k-mers find is asked for: those of the pool, in both orientations
Queries == UNION {{km, twin(km)} : km \in UNION {Kmers(seq) : seq \in Pool}}

\* the UnitigMapper object
Graph ==
    [hmap_min_unitigs |-> hmap_min_unitigs, v_unitigs |-> v_unitigs,
     v_kmers |-> v_kmers, h_kmers_ccov |-> h_kmers_ccov, ub |-> FALSE]

\* the slots of the three stores that hold a unitig
LiveLong(g) == {i \in 0..(Len(g.v_unitigs) - 1) : g.v_unitigs[i + 1] # NULL}

LiveShort(g) == {i \in 0..(Len(g.v_kmers) - 1) : g.v_kmers[i + 1].first # DeletedKey}

LiveAbundant(g) == {h \in 0..(g.h_kmers_ccov.size_ - 1) : HT_isReal(g.h_kmers_ccov, h)}

\* the live unitigs of a graph: store, slot, sequence and coverage
Unitigs(g) ==
    {[isShort |-> FALSE, isAbundant |-> FALSE, pos_unitig |-> i,
      seq |-> g.v_unitigs[i + 1].seq, ccov |-> g.v_unitigs[i + 1].ccov] : i \in LiveLong(g)}
    \cup {[isShort |-> TRUE, isAbundant |-> FALSE, pos_unitig |-> i,
           seq |-> KmerToString(g.v_kmers[i + 1].first),
           ccov |-> <<g.v_kmers[i + 1].second>>] : i \in LiveShort(g)}
    \cup {[isShort |-> FALSE, isAbundant |-> TRUE, pos_unitig |-> h,
           seq |-> KmerToString(g.h_kmers_ccov.table[h + 1].first),
           ccov |-> <<g.h_kmers_ccov.table[h + 1].second>>] : h \in LiveAbundant(g)}

\* the canonical k-mers of the live unitigs
GraphKmers(g) ==
    UNION {Kmers(g.v_unitigs[i + 1].seq) : i \in LiveLong(g)}
    \cup {g.v_kmers[i + 1].first : i \in LiveShort(g)}
    \cup {g.h_kmers_ccov.table[h + 1].first : h \in LiveAbundant(g)}

UMInit ==
    /\ hmap_min_unitigs = NewUnitigMapper.hmap_min_unitigs
    /\ h_kmers_ccov = NewUnitigMapper.h_kmers_ccov
    /\ v_unitigs = <<>>
    /\ v_kmers = <<>>
    /\ um_ret = [op |-> "none", n |-> 0]

UMIdle ==
    /\ hmap_min_unitigs = <<>>
    /\ v_unitigs = <<>>
    /\ v_kmers = <<>>
    /\ h_kmers_ccov = <<>>
    /\ um_ret = <<>>

\* the object after a call
UMSet(g) ==
    /\ hmap_min_unitigs' = g.hmap_min_unitigs
    /\ v_unitigs' = g.v_unitigs
    /\ v_kmers' = g.v_kmers
    /\ h_kmers_ccov' = g.h_kmers_ccov

\* bool UnitigMapper::addUnitigSequence(km, read, pos, seq, l_ignored_km_tip)
\* with a given seq: [g, ret, added, ub]
addUnitigSequence(g, km, read, pos, seq) ==
    The({IF cm.ub THEN [g |-> g, ret |-> FALSE, added |-> FALSE, ub |-> TRUE]
        ELSE IF ~cm.isEmpty
        THEN [g |-> mapRead(g, cm), ret |-> TRUE, added |-> FALSE, ub |-> FALSE]
        ELSE The({The({IF cm1.ub THEN [g |-> g1, ret |-> FALSE, added |-> TRUE, ub |-> TRUE]
                 ELSE [g |-> mapRead(g1, cm1), ret |-> ~cm1.isEmpty, added |-> TRUE,
                       ub |-> FALSE]
                       : cm1 \in {findUnitig(g1, km, read, pos)}})
                  : g1 \in {addUnitig(g, seq, IF Len(seq) = K THEN Len(g.v_kmers)
                                   ELSE Len(g.v_unitigs)).g}})
         : cm \in {findUnitig(g, km, read, pos)}})

\* addUnitigSequence of the first k-mer of a read and the unitig seq it lies
\* in; a unitig to add shares no k-mer with the graph
AddUnitigSequenceFrom(reads, pool) ==
    \E read \in reads, seq \in pool :
        /\ um_ret.n < MaxCalls
        /\ rep(KmerAt(read, 0)) \in Kmers(seq)
        /\ \E r \in {addUnitigSequence(Graph, KmerAt(read, 0), read, 0, seq)} :
               /\ r.added => Kmers(seq) \cap GraphKmers(Graph) = {}
               /\ UMSet(r.g)
               /\ um_ret' = [op |-> "addUnitigSequence", n |-> um_ret.n + 1,
                             ret |-> r.ret, added |-> r.added, ub |-> r.ub]
        /\ UNCHANGED notUM

GAddUnitigSequence == AddUnitigSequenceFrom(Reads, Pool)

\* deleteUnitig of a live unitig of one of the three stores
GDeleteUnitig ==
    /\ um_ret.n < MaxCalls
    /\ \E oob \in OobOutcomes :
          \E u \in Unitigs(Graph) :
              \E g \in {deleteUnitig(Graph, u.isShort, u.isAbundant, u.pos_unitig, oob)} :
                  UMSet(g)
    /\ um_ret' = [op |-> "deleteUnitig", n |-> um_ret.n + 1]
    /\ UNCHANGED notUM

\* swapUnitigs of two live unitigs of one store
GSwapUnitigs ==
    /\ um_ret.n < MaxCalls
    /\ \E isShort \in BOOLEAN :
          \E a, b \in IF isShort THEN LiveShort(Graph) ELSE LiveLong(Graph) :
              /\ a # b
              /\ \E g \in {swapUnitigs(Graph, isShort, a, b)} : UMSet(g)
    /\ um_ret' = [op |-> "swapUnitigs", n |-> um_ret.n + 1]
    /\ UNCHANGED notUM

\* splitAllUnitigs of a graph without deleted slots (it reads every slot)
GSplitAllUnitigs ==
    /\ um_ret.n < MaxCalls
    /\ LiveLong(Graph) = 0..(Len(v_unitigs) - 1)
    /\ LiveShort(Graph) = 0..(Len(v_kmers) - 1)
    /\ \E oob \in OobOutcomes :
          \E r \in {splitAllUnitigs(Graph, oob)} :
              /\ UMSet(r.g)
              /\ um_ret' = [op |-> "splitAllUnitigs", n |-> um_ret.n + 1,
                            split |-> r.split, deleted |-> r.deleted, pre |-> Graph]
    /\ UNCHANGED notUM

\* the S-lines of the abundant unitigs, lines 2052-2059: id is incremented
\* before it is written
RECURSIVE writeGFA_abundant(_, _, _)
writeGFA_abundant(g, h, id) ==
    IF h >= g.h_kmers_ccov.size_ THEN <<>>
    ELSE IF HT_isReal(g.h_kmers_ccov, h)
         THEN <<[id |-> id + 1,
                 seq |-> KmerToString(g.h_kmers_ccov.table[h + 1].first)]>>
              \o writeGFA_abundant(g, h + 1, id + 1)
         ELSE writeGFA_abundant(g, h + 1, id)

\* void UnitigMapper::writeGFA(string graphfilename) const, lines 2006-2059:
\* the S-lines of the file in the order written, each with its id and its
\* sequence; id starts at v_unitigs_sz + v_kmers_sz + 1 (line 2012)
writeGFA(g) ==
    LET v_unitigs_sz == Len(g.v_unitigs)
        v_kmers_sz == Len(g.v_kmers)
    IN  [labelA \in 1..v_unitigs_sz |->
            [id |-> labelA, seq |-> g.v_unitigs[labelA].seq]]
        \o [labelA \in 1..v_kmers_sz |->
            [id |-> labelA + v_unitigs_sz, seq |-> KmerToString(g.v_kmers[labelA].first)]]
        \o writeGFA_abundant(g, 0, v_unitigs_sz + v_kmers_sz + 1)

\* writeGFA of a graph without deleted slots (it reads every slot)
GWriteGFA ==
    /\ um_ret.n < MaxCalls
    /\ LiveLong(Graph) = 0..(Len(v_unitigs) - 1)
    /\ LiveShort(Graph) = 0..(Len(v_kmers) - 1)
    /\ um_ret' = [op |-> "writeGFA", n |-> um_ret.n + 1, S |-> writeGFA(Graph)]
    /\ UNCHANGED <<hmap_min_unitigs, v_unitigs, v_kmers, h_kmers_ccov, notUM>>

UMNext ==
    \/ GAddUnitigSequence
    \/ GDeleteUnitig
    \/ GSwapUnitigs
    \/ GSplitAllUnitigs

\* a second caller, whose unitigs crowd the bin of the minimizer AAA: three
\* long unitigs with one AAA each, and a k-mer with two
CrowdPool ==
    { <<2, 0, 0, 0, 3, 1>>,       \* GAAATC
      <<1, 0, 0, 0, 2, 1>>,       \* CAAAGC
      <<3, 0, 0, 0, 1, 2>>,       \* TAAACG
      <<3, 0, 0, 0, 0>> }         \* TAAAA

CAddUnitigSequence == AddUnitigSequenceFrom(CrowdPool, CrowdPool)

CrowdNext ==
    \/ CAddUnitigSequence
    \/ GDeleteUnitig
    \/ GSwapUnitigs
    \/ GWriteGFA

\* a short unitig that holds its minimizer ACA at offsets 0 and 2, and three
\* long unitigs every window of which has the minimizer ACA
TiePool ==
    { <<0, 1, 0, 1, 0>>,          \* ACACA
      <<2, 0, 1, 0, 1, 2>>,       \* GACACG
      <<1, 0, 1, 0, 1, 1>>,       \* CACACC
      <<3, 0, 1, 0, 1, 3>> }      \* TACACT

TAddUnitigSequence == AddUnitigSequenceFrom(TiePool, TiePool)

TieNext ==
    \/ TAddUnitigSequence
    \/ GDeleteUnitig
    \/ GSwapUnitigs

(***************************************************************************)
(* SpecCleanup: unitigs that are neighbours in the graph, and the passes   *)
(* that follow the construction: splitAllUnitigs, check_fp_tips,           *)
(* removeUnitigs and joinAllUnitigs.  CAAAGAC is the unitig the walker     *)
(* builds when it takes GAAGA, a second predecessor of AAGAC, for a        *)
(* false-positive tip; CAAAGA and AAGAC are its pieces; GAGTCT is the      *)
(* twin of AGACTC, which follows AAGAC.                                    *)
(***************************************************************************)
CleanupPool ==
    { <<1, 0, 0, 0, 2, 0, 1>>,    \* CAAAGAC
      <<1, 0, 0, 0, 2, 0>>,       \* CAAAGA
      <<0, 0, 2, 0, 1>>,          \* AAGAC
      <<2, 0, 2, 3, 1, 3>>,       \* GAGTCT
      <<2, 0, 0, 2, 0>> }         \* GAAGA

\* the k-mers the walker may have taken for false-positive tips
TipKmers == {rep(StrVal(<<2, 0, 0, 2, 0>>))}

\* the construction and its passes make at most CleanupCalls calls, and a
\* joinAllUnitigs may follow them
CleanupCalls == 4

\* a call has run into undefined behaviour: nothing is known of what follows
Crashed == "ub" \in DOMAIN um_ret /\ um_ret.ub

\* a further call may be made
MayCall == um_ret.n < CleanupCalls /\ ~Crashed

\* no slot of v_unitigs or v_kmers is a tombstone
NoTombstone(g) ==
    /\ LiveLong(g) = 0..(Len(g.v_unitigs) - 1)
    /\ LiveShort(g) = 0..(Len(g.v_kmers) - 1)

RECURSIVE TipTable(_, _)
\* the KmerHashTable<bool> of the k-mers of the sequence tips
TipTable(tips, n) ==
    IF n = 0 THEN NewUnitigMapper.h_kmers_ccov
    ELSE KHT_insert(TipTable(tips, n - 1), [first |-> tips[n], second |-> 0]).t

PAddUnitigSequence == MayCall /\ AddUnitigSequenceFrom(CleanupPool, CleanupPool)

PSplitAllUnitigs == MayCall /\ GSplitAllUnitigs

\* check_fp_tips with the table of the tips
PCheckFpTips ==
    /\ MayCall
    /\ NoTombstone(Graph)
    /\ \E oob \in OobOutcomes :
          \E tips \in {<<t>> : t \in TipKmers} :
              \E r \in {check_fp_tips(Graph, TipTable(tips, Len(tips)), oob)} :
                  /\ UMSet(r.g)
                  /\ um_ret' = [op |-> "check_fp_tips", n |-> um_ret.n + 1, ub |-> r.ub]
    /\ UNCHANGED notUM

\* removeUnitigs with each combination of its flags
PRemoveUnitigs ==
    /\ MayCall
    /\ NoTombstone(Graph)
    /\ \E oob \in OobOutcomes :
          \E rmIsolated, clipTips \in BOOLEAN :
              \E r \in {removeUnitigs(Graph, rmIsolated, clipTips, <<>>, oob)} :
                  /\ UMSet(r.g)
                  /\ um_ret' = [op |-> "removeUnitigs", n |-> um_ret.n + 1, ub |-> r.ub,
                                rmIsolated |-> rmIsolated, clipTips |-> clipTips,
                                removed |-> r.removed, v |-> r.v, pre |-> Graph]
    /\ UNCHANGED notUM

\* joinAllUnitigs, as a full scan or with the list removeUnitigs has filled
PJoinAllUnitigs ==
    /\ um_ret.n <= CleanupCalls /\ ~Crashed
    /\ NoTombstone(Graph)
    /\ \E oob \in OobOutcomes :
          \E full \in BOOLEAN :
              \E v_joins \in {[null |-> TRUE, kmers |-> <<>>]}
                             \cup (IF um_ret.op = "removeUnitigs"
                                   THEN {[null |-> FALSE, kmers |-> um_ret.v]} ELSE {}) :
                  \E r \in {joinAllUnitigs(Graph, v_joins, oob, full)} :
                      /\ UMSet(r.g)
                      /\ um_ret' = [op |-> "joinAllUnitigs", n |-> um_ret.n + 1,
                                    ub |-> r.ub, full_scan |-> v_joins.null,
                                    joined |-> r.joined, assert |-> r.assert]
    /\ UNCHANGED notUM

CleanupNext ==
    \/ PAddUnitigSequence
    \/ PSplitAllUnitigs
    \/ PCheckFpTips
    \/ PRemoveUnitigs
    \/ PJoinAllUnitigs

\* a graph that holds a unitig beginning with the k-mer Kmer() makes: AAAAAC,
\* beside the unitig CAAAGAC the walker built through the tip GAAGA
JoinPool ==
    { <<1, 0, 0, 0, 2, 0, 1>>,    \* CAAAGAC
      <<2, 0, 0, 2, 0>>,          \* GAAGA
      <<0, 0, 0, 0, 0, 1>>,       \* AAAAAC
      <<2, 0, 2, 3, 1, 3>> }      \* GAGTCT

JAddUnitigSequence == MayCall /\ AddUnitigSequenceFrom(JoinPool, JoinPool)

JoinNext ==
    \/ JAddUnitigSequence
    \/ PJoinAllUnitigs

\* the result um names the k-mer at offset p of the live unitig u, and its
\* strand flag tells how the query km reads there
Locates(um, u, p, km) ==
    /\ ~um.ub /\ ~um.isEmpty
    /\ um.isShort = u.isShort /\ um.isAbundant = u.isAbundant
    /\ um.pos_unitig = u.pos_unitig
    /\ um.dist = p
    /\ um.strand => KmerAt(u.seq, p) = km
    /\ ~um.strand => KmerAt(u.seq, p) = twin(km)

\* the canonical k-mers of the live unitigs of g whose coverage is full
FullKmers(g) ==
    {rep(KmerAt(u.seq, p - 1)) : <<u, p>> \in
        {<<u, p>> \in Unitigs(g) \X (1..(MaxUnitigLen - K + 1)) :
            p <= Len(u.ccov) /\ isFull(u.ccov[p])}}

(***************************************************************************)
(* SpecBuildCS: mapColors on a frozen graph: initColorSets, then           *)
(* buildColorSets.  The threads of buildColorSets take chunks of           *)
(* (substring, color) pairs from the reading function under mutex_file     *)
(* and, for each k-mer of a substring that find locates, extend the match  *)
(* along the read and add the color to the color set of the unitig, under  *)
(* the spin lock of its slot.  FileParser, KmerIterator, UnitigMap::lcp    *)
(* and UnitigColors are collaborators, modelled by their contract: a file  *)
(* is a sequence of reads over A, C, G, T, a color set is the set of its   *)
(* pairs <<color, k-mer offset>>, and add is a read of the set followed    *)
(* by a write.                                                             *)
(***************************************************************************)
\* s.substr(pos_read, 1000): the length of a slice of a long read, scaled down
SliceLen == 6

\* const size_t chunk_size = 1000, scaled down
chunk_size == 1

NoUm == [u |-> 0, dist |-> 0, len |-> 0]

\* the inputs: per run, the files in the order of their colors
TTCTTTG == <<3, 3, 1, 3, 3, 3, 2>>

CAAAGAT == <<1, 0, 0, 0, 2, 0, 3>>

InputFiles ==
    { << <<TTCTTTG, <<0, 1, 0, 1, 0>>>>, <<<<0, 0, 0, 0, 0, 1>>, <<3, 2, 3, 2, 3>>>> >>,
      << <<>>, <<CAAAGAT, <<0, 1, 0>>>>, <<<<3, 2, 3, 2, 3>>>> >> }

\* the graphs: the unitigs are added in one of these orders
GraphOrders ==
    { << <<0, 0, 0, 0, 0, 1>>, <<1, 0, 0, 0, 2, 0, 0>>, <<0, 1, 0, 1, 0>>, <<2, 0, 0, 0, 3>> >>,
      << <<0, 1, 0, 1, 0>>, <<2, 0, 0, 0, 3>>, <<1, 0, 0, 0, 2, 0, 0>>, <<0, 0, 0, 0, 0, 1>> >> }

\* the seeded hashes of the heads: all heads collide, or each has a slot of its own
HeadHashes(n) ==
    { [u \in 1..NbUnitigs |-> [i \in 1..MaxNbHash |-> (i - 1) % n]],
      [u \in 1..NbUnitigs |-> [i \in 1..MaxNbHash |-> (u + i - 2) % n]] }

RECURSIVE BuildGraph(_, _, _)
\* the graph after addUnitigSequence of the first n sequences of an order
BuildGraph(g, seqs, n) ==
    IF n = 0 THEN g
    ELSE The({addUnitigSequence(g0, KmerAt(seqs[n], 0), seqs[n], 0, seqs[n]).g
              : g0 \in {BuildGraph(g, seqs, n - 1)}})

\* the place of a unitig in the iteration order of the graph: v_unitigs,
\* then v_kmers, then h_kmers_ccov
UnitigId(g, u) ==
    IF u.isAbundant
    THEN Len(g.v_unitigs) + Len(g.v_kmers)
         + Cardinality({h \in LiveAbundant(g) : h <= u.pos_unitig})
    ELSE IF u.isShort THEN Len(g.v_unitigs) + u.pos_unitig + 1
    ELSE u.pos_unitig + 1

\* the sequence of the unitig a UnitigMap names
UnitigSeq(g, um) ==
    IF um.isAbundant THEN KmerToString(g.h_kmers_ccov.table[um.pos_unitig + 1].first)
    ELSE IF um.isShort THEN KmerToString(g.v_kmers[um.pos_unitig + 1].first)
    ELSE g.v_unitigs[um.pos_unitig + 1].seq

\* s.substr(pos, n)
substr(s, pos, n) == SubSeq(s, pos + 1, IF pos + n < Len(s) THEN pos + n ELSE Len(s))

RECURSIVE FileParser_read(_)
\* fp.read(s, file_id): the next read of the files and the index of its
\* file, or false after the last read of the last file
FileParser_read(fp) ==
    IF fp.f >= Len(fp.files) THEN [ok |-> FALSE, s |-> <<>>, file_id |-> fp.f, fp |-> fp]
    ELSE IF fp.r >= Len(fp.files[fp.f + 1])
    THEN FileParser_read([fp EXCEPT !.f = @ + 1, !.r = 0])
    ELSE [ok |-> TRUE, s |-> fp.files[fp.f + 1][fp.r + 1], file_id |-> fp.f,
          fp |-> [fp EXCEPT !.r = @ + 1]]

RECURSIVE reading_slices_no_overlap(_, _, _)
reading_slices_no_overlap(sh, v, file_id) ==
    IF sh.pos_read < sh.len_read /\ Len(v) < chunk_size
    THEN reading_slices_no_overlap(
             [sh EXCEPT !.pos_read = @ + SliceLen],
             Append(v, <<substr(sh.s, sh.pos_read, SliceLen), file_id>>), file_id)
    ELSE [sh |-> sh, v |-> v]

RECURSIVE reading_slices(_, _, _)
\* lines 311-320 and 333-342: the slices of the current long read, k - 1
\* characters of overlap between a slice and the next, until the chunk is full
reading_slices(sh, v, file_id) ==
    IF sh.pos_read < sh.len_read /\ Len(v) < chunk_size
    THEN reading_slices(
             [sh EXCEPT !.pos_read = @ - (K - 1) + SliceLen],
             Append(v, <<substr(sh.s, sh.pos_read - (K - 1), SliceLen), file_id>>), file_id)
    ELSE [sh |-> sh, v |-> v]

RECURSIVE reading_reads(_, _, _)
\* lines 322-366: read on until the chunk is full (return false) or the
\* files are exhausted (return true)
reading_reads(sh, v, file_id) ==
    IF Len(v) < chunk_size
    THEN The({IF x.ok
             THEN IF Len(x.s) > SliceLen
                  THEN The({reading_reads(y.sh, y.v, x.file_id)
                            : y \in {reading_slices([sh EXCEPT !.fp = x.fp, !.s = x.s,
                                                     !.len_read = Len(x.s),
                                                     !.pos_read = K - 1],
                                          v, x.file_id)}})
                  ELSE reading_reads([sh EXCEPT !.fp = x.fp, !.s = x.s,
                                                !.len_read = Len(x.s),
                                                !.pos_read = Len(x.s)],
                                     Append(v, <<x.s, x.file_id>>), x.file_id)
             ELSE [sh |-> [sh EXCEPT !.fp = x.fp, !.next_file = FALSE], v |-> v,
                   ret |-> TRUE]
              : x \in {FileParser_read(sh.fp)}})
    ELSE [sh |-> [sh EXCEPT !.next_file = TRUE, !.prev_file_id = file_id], v |-> v,
          ret |-> FALSE]

\* a reader that gives the slices left over from the chunk before the
\* file id 0 instead of prev_file_id
reading_function_firstFile(sh) ==
    The({reading_reads(y.sh, y.v, sh.prev_file_id)
         : y \in {reading_slices(sh, <<>>, 0)}})

\* reading_function(v_read_color), lines 306-367, on an empty v_read_color:
\* [sh, v, ret]
reading_function(sh) ==
    The({reading_reads(y.sh, y.v, sh.prev_file_id)
         : y \in {reading_slices(sh, <<>>, sh.prev_file_id)}})

\* UnitigMap::lcp(s, pos_s, pos_um_seq, um_reversed): the length of the
\* longest common prefix of s from pos_s on and the unitig from pos_um_seq on
lcp(g, um, s, pos_s, pos_um_seq, um_reversed) ==
    IF um.isEmpty \/ pos_s >= Len(s) THEN 0
    ELSE jump(UnitigSeq(g, um), s, pos_s, pos_um_seq, um_reversed)

\* lines 276-287: find the k-mer at it_km, extend the match along the read
worker_function_um(g, read, it_km) ==
    The({IF um.ub \/ um.isEmpty THEN um
        ELSE IF um.strand \/ um.dist # 0
        THEN The({[um EXCEPT !.len = len,
                                !.dist = IF um.size # K /\ ~um.strand THEN @ - (len - 1)
                                         ELSE @]
                  : len \in {1 + lcp(g, um, read, it_km + K,
                         IF um.strand THEN um.dist + K ELSE um.dist - 1, ~um.strand)}})
        ELSE um
         : um \in {find(g, KmerAt(read, it_km), FALSE)}})

\* UnitigColors::add(um, color_id): the color for the k-mers um covers
UnitigColors_add(colors, um, color_id) ==
    colors \cup {<<color_id, j>> : j \in um.dist..(um.dist + um.len - 1)}

RECURSIVE worker_next(_, _, _)
\* the loops of lines 272-274: the next k-mer of the chunk, from offset p of
\* read i on; at the end of the chunk the thread takes the next one
worker_next(v, i, p) ==
    IF i >= Len(v) THEN [pc |-> "take", v_read_color |-> <<>>, i |-> 0, it_km |-> 0,
                         um |-> NoUm, tmp |-> {}]
    ELSE IF p > Len(v[i + 1][1]) - K THEN worker_next(v, i + 1, 0)
    ELSE [pc |-> "kmer", v_read_color |-> v, i |-> i, it_km |-> p, um |-> NoUm, tmp |-> {}]

BcsWorkerIdleRec == worker_next(<<>>, 0, 0)

\* lines 258-262 and 301-304, 370: the state of the reader and of the pool
BCSInitWith(fs) ==
    /\ bcs_sh = [fp |-> [files |-> fs, f |-> 0, r |-> 0], s |-> <<>>,
                 pos_read |-> K - 1, len_read |-> 0, prev_file_id |-> 0,
                 next_file |-> TRUE, stop |-> FALSE, ub |-> FALSE, returned |-> FALSE]
    /\ bcs_wk = [w \in Workers |-> BcsWorkerIdleRec]

BCSInit == \E fs \in InputFiles : BCSInitWith(fs)

BCSIdle ==
    /\ bcs_sh = <<>>
    /\ bcs_wk = <<>>

\* the thread body, lines 389-402: under mutex_file, return if stop is set,
\* else fill the chunk; then map it
BCS_Take(w) ==
    /\ ICS_Done
    /\ ~bcs_sh.returned
    /\ bcs_wk[w].pc = "take"
    /\ IF bcs_sh.stop
       THEN /\ bcs_wk' = [bcs_wk EXCEPT ![w].pc = "done"]
            /\ UNCHANGED bcs_sh
       ELSE \E r \in {reading_function(bcs_sh)} :
               /\ bcs_sh' = [r.sh EXCEPT !.stop = r.ret]
               /\ bcs_wk' = [bcs_wk EXCEPT ![w] = worker_next(r.v, 0, 0)]
    /\ UNCHANGED <<storeVars, notBCS>>

\* lines 276-291: find and extend; a k-mer that is not in the graph is
\* skipped, for one that is the thread spins on the lock of the slot
BCS_Kmer(w) ==
    /\ bcs_wk[w].pc = "kmer"
    /\ \E me \in {bcs_wk[w]} :
       \E um \in {worker_function_um(Graph, me.v_read_color[me.i + 1][1], me.it_km)} :
          IF um.isEmpty
          THEN /\ bcs_wk' = [bcs_wk EXCEPT ![w] = worker_next(me.v_read_color, me.i,
                                                              me.it_km + 1)]
               /\ bcs_sh' = [bcs_sh EXCEPT !.ub = @ \/ um.ub]
               /\ UNCHANGED cs_locks
          ELSE \E id_lock \in {getHash(UnitigId(Graph, um)) % nb_locks} :
                  /\ test_and_set(id_lock)
                  /\ cs_locks' = [cs_locks EXCEPT ![id_lock + 1] = TRUE]
                  /\ bcs_wk' = [bcs_wk EXCEPT
                                   ![w].pc = "add_read",
                                   ![w].um = [u |-> UnitigId(Graph, um), dist |-> um.dist,
                                              len |-> um.len]]
                  /\ UNCHANGED bcs_sh
    /\ UNCHANGED <<color_sets, overflow, accessor, head_hash, notBCS>>

\* line 293, first half: add reads the color set of the unitig
BCS_AddRead(w) ==
    /\ bcs_wk[w].pc = "add_read"
    /\ bcs_wk' = [bcs_wk EXCEPT ![w].pc = "add_write",
                                ![w].tmp = color_sets[getHash(bcs_wk[w].um.u) + 1].colors]
    /\ UNCHANGED <<storeVars, bcs_sh, notBCS>>

\* lines 293-295 and 286: add writes the color set back, the lock is
\* released, the iterator moves past the k-mers covered
BCS_AddWrite(w) ==
    /\ bcs_wk[w].pc = "add_write"
    /\ \E me \in {bcs_wk[w]} :
          /\ color_sets' = [color_sets EXCEPT ![getHash(me.um.u) + 1].colors =
                               UnitigColors_add(me.tmp, me.um, me.v_read_color[me.i + 1][2])]
          /\ cs_locks' = [cs_locks EXCEPT ![(getHash(me.um.u) % nb_locks) + 1] = FALSE]
          /\ bcs_wk' = [bcs_wk EXCEPT ![w] = worker_next(me.v_read_color, me.i,
                                                         me.it_km + me.um.len)]
    /\ UNCHANGED <<overflow, accessor, head_hash, bcs_sh, notBCS>>

\* lines 407-421: the threads are joined; another pass starts if next_file
\* is set, else the color sets are optimized and buildColorSets returns
BCS_Join ==
    /\ ICS_Done
    /\ ~bcs_sh.returned
    /\ \A w \in Workers : bcs_wk[w].pc = "done"
    /\ IF bcs_sh.next_file
       THEN /\ bcs_sh' = [bcs_sh EXCEPT !.stop = FALSE]
            /\ bcs_wk' = [w \in Workers |-> BcsWorkerIdleRec]
       ELSE /\ bcs_sh' = [bcs_sh EXCEPT !.returned = TRUE]
            /\ UNCHANGED bcs_wk
    /\ UNCHANGED <<storeVars, notBCS>>

BCSNext ==
    \/ \E w \in Workers : BCS_Take(w)
    \/ \E w \in Workers : BCS_Kmer(w)
    \/ \E w \in Workers : BCS_AddRead(w)
    \/ \E w \in Workers : BCS_AddWrite(w)
    \/ BCS_Join

\* mapColors, lines 103-107: initColorSets, then buildColorSets
MapNext == ICSNext \/ BCSNext

\* the graph is built and frozen, the DataStorage is constructed
MapInit ==
    /\ \E seqs \in GraphOrders :
          \E g \in {BuildGraph(NewUnitigMapper, seqs, NbUnitigs)} :
              /\ hmap_min_unitigs = g.hmap_min_unitigs
              /\ v_unitigs = g.v_unitigs
              /\ v_kmers = g.v_kmers
              /\ h_kmers_ccov = g.h_kmers_ccov
              /\ Cardinality(Unitigs(g)) = NbUnitigs
    /\ um_ret = [op |-> "none", n |-> 0]
    /\ \E n \in DataStorage_nb_color_sets(NbUnitigs) :
          /\ color_sets = EmptyStore(n)
          /\ head_hash \in HeadHashes(n)
    /\ overflow = [u \in 1..NbUnitigs |-> NoSlot]
    /\ accessor = [u \in 1..NbUnitigs |-> 0]
    /\ cs_locks = [l \in 1..nb_locks |-> FALSE]
    /\ cs_sh = [g_a |-> 1, last_empty_pos |-> 0, mutex_cs_overflow |-> NoWorker]
    /\ cs_wk = [w \in Workers |-> WorkerIdleRec]
    /\ BCSInit

\* the canonical k-mers of the reads of a file
FileKmers(file) == UNION {Kmers(file[r]) : r \in 1..Len(file)}

RECURSIVE SerialRead(_, _, _, _)
\* worker_function on one (read, color) pair, run alone: the triples
\* <<unitig, color, k-mer offset>> it adds
SerialRead(g, read, color, it_km) ==
    IF it_km > Len(read) - K THEN {}
    ELSE The({IF um.isEmpty THEN SerialRead(g, read, color, it_km + 1)
             ELSE {<<UnitigId(g, um), color, j>> : j \in um.dist..(um.dist + um.len - 1)}
                  \cup SerialRead(g, read, color, it_km + um.len)
              : um \in {worker_function_um(g, read, it_km)}})

RECURSIVE SerialRun(_, _)
\* buildColorSets with one thread: chunk after chunk
SerialRun(g, sh) ==
    The({UNION {SerialRead(g, r.v[i][1], r.v[i][2], 0) : i \in 1..Len(r.v)}
        \cup (IF r.ret THEN {} ELSE SerialRun(g, r.sh))
         : r \in {reading_function(sh)}})

(***************************************************************************)
(* The specifications                                                      *)
(***************************************************************************)
InitHT == HTInit /\ DrvIdle /\ ICSIdle /\ BCSIdle /\ UMIdle

SpecHT == InitHT /\ [][HTNext]_vars

InitCap == CapInit /\ DrvIdle /\ ICSIdle /\ BCSIdle /\ UMIdle

SpecCap == InitCap /\ [][CapNext]_vars

InitDriver == DrvInit /\ HTIdle /\ ICSIdle /\ BCSIdle /\ UMIdle

SpecDriver == InitDriver /\ [][DrvNext]_vars

InitCS == ICSInit /\ HTIdle /\ DrvIdle /\ BCSIdle /\ UMIdle

SpecInitCS == InitCS /\ [][ICSNext]_vars

\* every worker thread that can take a step eventually does
SpecInitCSFair == SpecInitCS /\ \A w \in Workers : WF_vars(ICS_Worker(w))

InitGraph == UMInit /\ HTIdle /\ DrvIdle /\ ICSIdle /\ BCSIdle

SpecGraph == InitGraph /\ [][UMNext]_vars

SpecCrowd == InitGraph /\ [][CrowdNext]_vars

SpecTies == InitGraph /\ [][TieNext]_vars

SpecCleanup == InitGraph /\ [][CleanupNext]_vars

SpecJoin == InitGraph /\ [][JoinNext]_vars

InitBuildCS == MapInit /\ HTIdle /\ DrvIdle

SpecBuildCS == InitBuildCS /\ [][MapNext]_vars

(***************************************************************************)
(* The claims                                                              *)
(***************************************************************************)
\* C7 (the claim as stated, which the code violates): once a call of build has returned false (the graph is invalid), every
\* later call of mapColors and of write returns false and is a no-op: no
\* color sets are initialised, built or loaded, and no file is written.
C7_FailedBuildShortCircuits ==
    (build_failed /\ drv_ret.op \in {"mapColors", "write"}) =>
        /\ drv_ret.ret = FALSE
        /\ ds_colors = drv_ret.pre_colors
        /\ files = drv_ret.pre_files

\* find(key) of the table's class, as an iterator
HT_findOf(key) == IF ht_kind = "Kmer" THEN KHT_find(ht, key) ELSE MHT_find(ht, key)

\* C8: KmerHashTable and MinimizerHashTable refine an abstract key -> value
\* map under insert and erase by key or by iterator: find(K) returns K's
\* entry (with the value of its first insert) iff K was inserted and not
\* erased since; no key sits in two slots; insert of a present key returns
\* (existing entry, false) and leaves its value, insert of an absent key
\* returns (new entry, true); erase by key returns the number of keys removed.
C8_TableRefinesMap ==
    /\ \A key \in HTKeys :
          LET it == HT_findOf(key)
          IN  IF absMap[key] = NoVal THEN it = ht.size_
              ELSE /\ it # ht.size_
                   /\ ht.table[it + 1] = [first |-> key, second |-> absMap[key]]
    /\ \A i, j \in 1..ht.size_ :
          (i # j /\ HT_isReal(ht, i - 1)) => ht.table[i].first # ht.table[j].first
    /\ ht_ret.op = "insert" =>
          /\ ~ht_ret.hang
          /\ ht_ret.inserted = (ht_ret.was = NoVal)
          /\ ht_ret.it = HT_findOf(ht_ret.key)
          /\ absMap[ht_ret.key] = (IF ht_ret.was = NoVal THEN ht_ret.val ELSE ht_ret.was)
    /\ ht_ret.op = "eraseKey" => ht_ret.n = (IF ht_ret.was = NoVal THEN 0 ELSE 1)

\* C8 witness: in a table that has been resized (it is larger than any
\* constructed one), a present key is found behind a tombstone lying in its
\* home bucket, and the last insert met a present key.
C8_Witness ==
    /\ ht.size_ > rndup((12 * MaxCtorSize) \div 10)
    /\ ht_ret.op = "insert" /\ ~ht_ret.inserted
    /\ \E key \in HTKeys :
          /\ absMap[key] # NoVal
          /\ ht.table[BitAnd(KmerHash(key), ht.size_ - 1) + 1].first = ht.deleted.first

\* C3: when initColorSets has returned, whatever the interleaving was, every
\* unitig resolves to exactly one slot of color_sets (through its accessor
\* byte, or through overflow and then only through overflow), that slot is
\* occupied, no two unitigs resolve to the same slot, and the number of
\* occupied slots is the number of unitigs.
C3_OneSlotPerUnitig ==
    ICS_Done =>
        /\ \A u \in 1..NbUnitigs :
              /\ getHash(u) \in Slots
              /\ color_sets[getHash(u) + 1].occupied
              /\ accessor[u] \in 0..MaxNbHash
              /\ (accessor[u] # 0) => (overflow[u] = NoSlot)
        /\ \A u, v \in 1..NbUnitigs : (u # v) => (getHash(u) # getHash(v))
        /\ Cardinality({h \in Slots : color_sets[h + 1].occupied}) = NbUnitigs

C3_Witness ==
    /\ ICS_Done
    /\ \E u \in 1..NbUnitigs : accessor[u] = 0
    /\ \E u \in 1..NbUnitigs : accessor[u] = MaxNbHash
    /\ \E u, v \in 1..NbUnitigs : u # v /\ head_hash[u] = head_hash[v]

\* C4: when color_sets has more slots than there are unitigs, under every
\* fair interleaving initColorSets returns: every worker leaves its seeded
\* probes and its scan from last_empty_pos, and none waits forever on a slot
\* flag or on mutex_cs_overflow.
C4_InitColorSetsTerminates == (nb_color_sets > NbUnitigs) => <>ICS_Done

\* two workers in the overflow path, one waiting for the mutex of the other,
\* while the slot the holder wants is still locked or occupied
C4_Witness ==
    /\ nb_color_sets > NbUnitigs
    /\ \E w1, w2 \in Workers :
          /\ cs_wk[w1].pc = "ovf_lock"
          /\ cs_sh.mutex_cs_overflow = w2
          /\ cs_wk[w2].pc = "ovf_check"
          /\ ~isUnoccupied(cs_sh.last_empty_pos)

\* C1 (the claim as stated, which the code violates): in every reachable
\* graph, for every k-mer at offset p of every live unitig u, find(km) and
\* find(twin(km)) are non-empty, name u and p, and carry a strand flag that
\* is true when u reads km at p and false when it reads twin(km).
C1_FindLocatesEveryKmer ==
    \A u \in Unitigs(Graph) : \A p \in 0..(Len(u.seq) - K) :
        \A km \in {KmerAt(u.seq, p), twin(KmerAt(u.seq, p))} :
            Locates(find(Graph, km, FALSE), u, p, km)

C9_SplitIdempotent ==
    um_ret.op = "splitAllUnitigs" =>
        /\ LiveLong(Graph) = 0..(Len(v_unitigs) - 1)
        /\ LiveShort(Graph) = 0..(Len(v_kmers) - 1)
        /\ \A oob \in OobOutcomes :
              splitAllUnitigs(Graph, oob) = [g |-> Graph, split |-> 0, deleted |-> 0]

\* C9 witness: a run of splitAllUnitigs that has split a unitig into pieces
\* and deleted another, and has left a short unitig in the graph.
C9_Witness ==
    /\ um_ret.op = "splitAllUnitigs"
    /\ um_ret.split > 0 /\ um_ret.deleted > 0
    /\ LiveShort(Graph) # {}

ColorsOf(u) == color_sets[getHash(u) + 1].colors

\* the slot a worker of buildColorSets is adding to
AddingTo(w) == IF bcs_wk[w].pc \in {"add_read", "add_write"} THEN getHash(bcs_wk[w].um.u)
               ELSE NoSlot

\* C5: no two workers of buildColorSets are inside add on the same
\* color_sets slot at the same time, and when buildColorSets has returned,
\* whatever the interleaving of its workers was, the color set of every
\* unitig holds exactly what the run with one thread adds to it.
C5_ColorsIndependentOfInterleaving ==
    /\ \A w1, w2 \in DOMAIN bcs_wk :
          (w1 # w2 /\ AddingTo(w1) # NoSlot) => AddingTo(w1) # AddingTo(w2)
    /\ bcs_sh.returned =>
          \A u \in 1..NbUnitigs :
              {<<u, x[1], x[2]>> : x \in ColorsOf(u)}
                  = {t \in SerialRun(Graph, [bcs_sh EXCEPT
                                                !.fp = [files |-> bcs_sh.fp.files,
                                                        f |-> 0, r |-> 0],
                                                !.s = <<>>, !.pos_read = K - 1,
                                                !.len_read = 0, !.prev_file_id = 0,
                                                !.next_file = TRUE, !.stop = FALSE,
                                                !.returned = FALSE]) : t[1] = u}

\* C5 witness: a worker is inside add on the color set of a unitig while
\* another worker, holding a read of another color, has found a k-mer of the
\* same unitig and spins on the lock of the slot.
C5_Witness ==
    \E w1, w2 \in DOMAIN bcs_wk :
        /\ bcs_wk[w1].pc = "add_write"
        /\ bcs_wk[w2].pc = "kmer"
        /\ bcs_wk[w1].v_read_color[bcs_wk[w1].i + 1][2]
               # bcs_wk[w2].v_read_color[bcs_wk[w2].i + 1][2]
        /\ LET um == worker_function_um(Graph, bcs_wk[w2].v_read_color[bcs_wk[w2].i + 1][1],
                                        bcs_wk[w2].it_km)
           IN  ~um.isEmpty /\ UnitigId(Graph, um) = bcs_wk[w1].um.u

\* C6: when mapColors has returned, for every file index c and every k-mer
\* of every unitig of the graph, the color set of the unitig holds color c
\* for that k-mer if and only if the k-mer, in either orientation, occurs
\* in a read of file c; the color sets hold nothing else.
C6_ColorsMatchFiles ==
    bcs_sh # <<>> /\ bcs_sh.returned =>
        /\ ~bcs_sh.ub
        /\ \A u \in Unitigs(Graph) :
              /\ \A p \in 0..(Len(u.seq) - K) : \A c \in 0..(Len(bcs_sh.fp.files) - 1) :
                    (<<c, p>> \in ColorsOf(UnitigId(Graph, u)))
                        <=> (rep(KmerAt(u.seq, p)) \in FileKmers(bcs_sh.fp.files[c + 1]))
              /\ ColorsOf(UnitigId(Graph, u))
                     \subseteq (0..(Len(bcs_sh.fp.files) - 1)) \X (0..(Len(u.seq) - K))
        /\ \A h \in Slots :
              (\A u \in 1..NbUnitigs : getHash(u) # h) => color_sets[h + 1].colors = {}

\* C6 witness: mapColors has returned; a k-mer of a unitig has the colors of
\* two files, one of which holds it reversed, a k-mer of a long unitig has
\* one color and another k-mer of the graph has none, and one of the color
\* sets is reached through the overflow table.
C6_Witness ==
    /\ bcs_sh # <<>> /\ bcs_sh.returned
    /\ \E u \in 1..NbUnitigs : \E p \in 0..(MaxUnitigLen - K) : \E c1, c2 \in 0..2 :
          c1 # c2 /\ {<<c1, p>>, <<c2, p>>} \subseteq ColorsOf(u)
    /\ \E u \in Unitigs(Graph) :
          /\ Len(u.seq) > K
          /\ \E p \in 0..(Len(u.seq) - K) :
                Cardinality({x \in ColorsOf(UnitigId(Graph, u)) : x[2] = p}) = 1
    /\ \E u \in 1..NbUnitigs : ColorsOf(u) = {}
    /\ \E u \in 1..NbUnitigs : accessor[u] = 0 /\ ColorsOf(u) # {}

\* initColorSets has given unitig u its slot
Processed(u) ==
    /\ u < cs_sh.g_a
    /\ \A w \in DOMAIN cs_wk : cs_wk[w].unitig = u => cs_wk[w].pc \in {"take", "done"}

\* C20: when a worker of initColorSets marks slot h occupied for unitig u
\* and stores the accessor byte, the byte resolves to h: a byte b in
\* 1..max_nb_hash has hash(head, seeds[b-1]) mod nb_color_sets = h, a byte 0
\* has overflow[head] = h; and from then on the byte, the hashes and the
\* overflow entry of u stay as they are.
C20_AccessorResolvesToSlot ==
    [][/\ \A w \in DOMAIN cs_wk :
             (cs_wk[w].pc = "set" /\ cs_wk'[w].pc # "set") =>
                 /\ ~color_sets[cs_wk[w].h_v + 1].occupied
                 /\ color_sets'[cs_wk[w].h_v + 1].occupied
                 /\ accessor'[cs_wk[w].unitig] \in 0..MaxNbHash
                 /\ accessor'[cs_wk[w].unitig] # 0 =>
                        head_hash'[cs_wk[w].unitig][accessor'[cs_wk[w].unitig]]
                            = cs_wk[w].h_v
                 /\ accessor'[cs_wk[w].unitig] = 0 =>
                        overflow'[cs_wk[w].unitig] = cs_wk[w].h_v
       /\ \A u \in DOMAIN accessor :
             Processed(u) =>
                 /\ accessor'[u] = accessor[u]
                 /\ overflow'[u] = overflow[u]
                 /\ head_hash'[u] = head_hash[u]
                 /\ color_sets'[getHash(u) + 1].occupied]_vars

\* C20 witness: initColorSets has returned, one unitig took the slot of its
\* first hash, one the slot of a later hash and one a slot of the overflow
\* table that none of its hashes names.
C20_Witness ==
    /\ ICS_Done
    /\ \E u \in 1..NbUnitigs : accessor[u] = 1
    /\ \E u \in 1..NbUnitigs : accessor[u] = MaxNbHash
    /\ \E u \in 1..NbUnitigs :
          /\ accessor[u] = 0
          /\ \A i \in 1..MaxNbHash : head_hash[u][i] # overflow[u]

\* the entries of all bins of the minimizer index of g
BinEntries(g) ==
    UNION {{Bin(g.hmap_min_unitigs, h)[i] : i \in 1..Len(Bin(g.hmap_min_unitigs, h))} :
              h \in {x \in 0..(g.hmap_min_unitigs.size_ - 1) :
                        HT_isReal(g.hmap_min_unitigs, x)}}

\* the k-mers of the live slots of v_kmers and the keys of h_kmers_ccov
ShortKmers(g) == {g.v_kmers[i + 1].first : i \in LiveShort(g)}

AbundantKmers(g) == {g.h_kmers_ccov.table[h + 1].first : h \in LiveAbundant(g)}

\* the slot addUnitig is given for a new unitig: the end of its vector
NewId(g, seq) == IF Len(seq) = K THEN Len(g.v_kmers) ELSE Len(g.v_unitigs)

\* C13: the three stores partition the unitigs: a live v_unitigs slot holds
\* a sequence longer than k, no canonical k-mer is held by two of the
\* stores or by two v_kmers slots, and addUnitig of a new sequence returns
\* true exactly when it has made the k-mer a key of h_kmers_ccov, then
\* leaving no live v_kmers slot and no short-type bin entry for it, and
\* otherwise has stored it in the slot it was given.
C13_StoresPartition ==
    /\ \A i \in LiveLong(Graph) : Len(v_unitigs[i + 1].seq) > K
    /\ ShortKmers(Graph) \cap AbundantKmers(Graph) = {}
    /\ \A i \in LiveLong(Graph) :
          Kmers(v_unitigs[i + 1].seq) \cap (ShortKmers(Graph) \cup AbundantKmers(Graph)) = {}
    /\ \A i, j \in LiveShort(Graph) : v_kmers[i + 1].first = v_kmers[j + 1].first => i = j
    /\ \A seq \in Pool :
          Kmers(seq) \cap GraphKmers(Graph) = {} =>
              LET id == NewId(Graph, seq)
                  a == addUnitig(Graph, seq, id)
                  km == rep(StrVal(seq))
              IN  /\ a.isAbundant <=>
                         (Len(seq) = K /\ KHT_find(a.g.h_kmers_ccov, km) # a.g.h_kmers_ccov.size_)
                  /\ a.isAbundant =>
                         /\ km \notin ShortKmers(a.g)
                         /\ LiveShort(a.g) = LiveShort(Graph)
                         /\ \A e \in BinEntries(a.g) :
                               BitAnd(e, MASK_CONTIG_ID) # MASK_CONTIG_ID =>
                                   ~(BitAnd(e, MASK_CONTIG_TYPE) # 0 /\ e \div ID_SHIFT = id)
                  /\ (~a.isAbundant /\ Len(seq) = K) =>
                         /\ a.g.v_kmers[id + 1].first = km
                         /\ km \notin AbundantKmers(a.g)
                  /\ Len(seq) > K =>
                         /\ a.g.v_unitigs[id + 1].seq = seq
                         /\ AbundantKmers(a.g) = AbundantKmers(Graph)

\* C13 witness: the three stores hold a unitig each, the abundant one put
\* there by the last call of addUnitigSequence.
C13_Witness ==
    /\ um_ret.op = "addUnitigSequence" /\ um_ret.added
    /\ LiveLong(Graph) # {} /\ LiveShort(Graph) # {} /\ LiveAbundant(Graph) # {}

\* the canonical minimizers of a k-mer: those of the minHashResults of its window
MinimizersOf(km) ==
    {MinzRep(KmerToString(km), minHashResults(KmerToString(km), 0)[j].pos) :
        j \in 1..Len(minHashResults(KmerToString(km), 0))}

\* the reference count of the abundant bookkeeping record of a bin, 0 if it has none
RefCount(v) ==
    IF Len(v) > 0 /\ BitAnd(v[Len(v)], MASK_CONTIG_ID) = MASK_CONTIG_ID
    THEN BitAnd(v[Len(v)], MASK_CONTIG_POS)
    ELSE 0

\* the minimizers that have a bin
BinKeys(g) ==
    {g.hmap_min_unitigs.table[h + 1].first :
        h \in {x \in 0..(g.hmap_min_unitigs.size_ - 1) : HT_isReal(g.hmap_min_unitigs, x)}}

AbundantOccurrences(g, m) ==
    {x \in AbundantKmers(g) \X (1..(K - G + 1)) :
        /\ x[2] <= Len(minHashResults(KmerToString(x[1]), 0))
        /\ MinzRep(KmerToString(x[1]), minHashResults(KmerToString(x[1]), 0)[x[2]].pos) = m}

QueriesOf(u) ==
    UNION {{KmerAt(u.seq, p), twin(KmerAt(u.seq, p))} : p \in 0..(Len(u.seq) - K)}

\* g2 is g with the slot of unitig u made a tombstone, all else in place
Tombstoned(g, g2, u) ==
    IF u.isAbundant
    THEN /\ g2.v_unitigs = g.v_unitigs /\ g2.v_kmers = g.v_kmers
         /\ AbundantKmers(g2) = AbundantKmers(g) \ {rep(KmerAt(u.seq, 0))}
    ELSE IF u.isShort
    THEN /\ g2.v_unitigs = g.v_unitigs /\ g2.h_kmers_ccov = g.h_kmers_ccov
         /\ Len(g2.v_kmers) = Len(g.v_kmers)
         /\ g2.v_kmers[u.pos_unitig + 1].first = DeletedKey
         /\ \A i \in 1..Len(g.v_kmers) : i # u.pos_unitig + 1 => g2.v_kmers[i] = g.v_kmers[i]
    ELSE /\ g2.v_kmers = g.v_kmers /\ g2.h_kmers_ccov = g.h_kmers_ccov
         /\ g2.v_unitigs = [g.v_unitigs EXCEPT ![u.pos_unitig + 1] = NULL]

Swapped(isShort, a, b, u) ==
    IF u.isAbundant \/ u.isShort # isShort THEN u.pos_unitig
    ELSE IF u.pos_unitig = a THEN b
    ELSE IF u.pos_unitig = b THEN a
    ELSE u.pos_unitig

\* the pairs of live slots of a store
LivePairs(g, isShort) ==
    {ab \in (IF isShort THEN LiveShort(g) ELSE LiveLong(g))
            \X (IF isShort THEN LiveShort(g) ELSE LiveLong(g)) : ab[1] # ab[2]}

\* the bins, as hash-table slots, that hold an entry of the long unitig of slot id
BinsOfLong(g, id) ==
    {h \in 0..(g.hmap_min_unitigs.size_ - 1) :
        /\ HT_isReal(g.hmap_min_unitigs, h)
        /\ \E i \in 1..Len(Bin(g.hmap_min_unitigs, h)) :
              BitAnd(Bin(g.hmap_min_unitigs, h)[i], mask) = id * ID_SHIFT}

\* C16: swapUnitigs(isShort, a, b) on two live unitigs of one store: find of
\* every k-mer of every unitig returns what it returned before, with slot b
\* for the unitig that was in slot a, slot a for the one that was in slot b
\* and the same slot for every other unitig; offset and strand are the same.
C16_SwapRenamesSlots ==
    \A isShort \in BOOLEAN : \A ab \in LivePairs(Graph, isShort) :
        LET g2 == swapUnitigs(Graph, isShort, ab[1], ab[2])
        IN  \A u \in Unitigs(Graph) : \A km \in QueriesOf(u) :
                LET um == find(Graph, km, FALSE)
                IN  find(g2, km, FALSE)
                        = [um EXCEPT !.pos_unitig = Swapped(isShort, ab[1], ab[2], u)]

\* swapUnitigs has run and two live long unitigs have entries in one bin
\* that carries the overcrowding marker
C16_Witness ==
    /\ um_ret.op = "swapUnitigs"
    /\ \E ab \in LivePairs(Graph, FALSE) :
          \E h \in BinsOfLong(Graph, ab[1]) \cap BinsOfLong(Graph, ab[2]) :
              mask \in {Bin(hmap_min_unitigs, h)[i] : i \in 1..Len(Bin(hmap_min_unitigs, h))}

\* the bin of slot h of the minimizer table ends with the overcrowding marker
\* or with an abundant bookkeeping record that carries the overcrowding flag
Overcrowded(g, h) ==
    /\ HT_isReal(g.hmap_min_unitigs, h)
    /\ Len(Bin(g.hmap_min_unitigs, h)) > 0
    /\ BitAnd(Bin(g.hmap_min_unitigs, h)[Len(Bin(g.hmap_min_unitigs, h))], mask) = mask

\* the live long unitigs that have a k-mer with the minimizer m
LongSharing(g, m) ==
    {id \in LiveLong(g) :
        \E p \in 0..(Len(g.v_unitigs[id + 1].seq) - K) :
            m \in MinimizersOf(KmerAt(g.v_unitigs[id + 1].seq, p))}

RECURSIVE Redirected(_, _, _, _, _)
\* the entry e of the window p of the sequence s is in the bin of the
\* minimizer of mhr, or that bin is overcrowded and the entry is further
\* along the window's next distinct minimizers
Redirected(g, s, p, mhr, e) ==
    LET it == MHT_find(g.hmap_min_unitigs, MinzRep(s, mhr.pos))
    IN  /\ it # g.hmap_min_unitigs.size_
        /\ \/ \E i \in 1..Len(Bin(g.hmap_min_unitigs, it)) : Bin(g.hmap_min_unitigs, it)[i] = e
           \/ /\ Overcrowded(g, it)
              /\ getNewMin(s, p, mhr).hash # mhr.hash
              /\ Redirected(g, s, p, getNewMin(s, p, mhr), e)

\* find names offset p of unitig u, with the right strand, for both
\* orientations of every k-mer of every unitig of U
FindLocates(g, U) ==
    \A u \in U : \A p \in 0..(Len(u.seq) - K) :
        \A km \in {KmerAt(u.seq, p), twin(KmerAt(u.seq, p))} :
            Locates(find(g, km, FALSE), u, p, km)

\* C18 (the claim as stated, which the code violates): when more long
\* unitigs than max_abundance_lim have a k-mer with one minimizer, the bin of
\* the minimizer is overcrowded, the entry of every window of every long
\* unitig is in the bin of the window's minimizer or, from an overcrowded
\* bin on, in the bin of a next distinct minimizer of the window, and find
\* returns the right unitig, offset and strand for every k-mer of every
\* stored unitig.
C18_OvercrowdedBinsServeFind ==
    \A h \in 0..(hmap_min_unitigs.size_ - 1) :
        (/\ HT_isReal(hmap_min_unitigs, h)
         /\ Cardinality(LongSharing(Graph, hmap_min_unitigs.table[h + 1].first))
                > max_abundance_lim)
        => /\ Overcrowded(Graph, h)
           /\ \A id \in LiveLong(Graph) :
                 \A p \in 0..(Len(v_unitigs[id + 1].seq) - K) :
                     \A j \in 1..Len(minHashResults(v_unitigs[id + 1].seq, p)) :
                         Redirected(Graph, v_unitigs[id + 1].seq, p,
                                    minHashResults(v_unitigs[id + 1].seq, p)[j],
                                    BitOr(id * ID_SHIFT,
                                          minHashResults(v_unitigs[id + 1].seq, p)[j].pos))
           /\ FindLocates(Graph, Unitigs(Graph))

\* the k-mer km, in either orientation, is a k-mer of a live unitig of g
Present(g, km) == rep(km) \in GraphKmers(g)

\* the k-mers that follow km and are present in g
Successors(g, km) == {n \in {forwardBase(km, b) : b \in 0..3} : Present(g, n)}

\* the k-mers that precede km and are present in g
Predecessors(g, km) == {n \in {backwardBase(km, b) : b \in 0..3} : Present(g, n)}

\* the ends of the unitig u that joinAllUnitigs tries: its tail and the twin
\* of its head
EndsOf(u) == {KmerAt(u.seq, Len(u.seq) - K), twin(KmerAt(u.seq, 0))}

\* the UnitigMap joinAllUnitigs passes to checkJoin for the unitig u
MapOf(u) == UnitigMap(u.pos_unitig, 0, 0, 1, Len(u.seq), u.isShort, u.isAbundant, TRUE)

\* n continues a into another unitig: n is the only k-mer present after a,
\* an end k-mer, read in the orientation that continues a, of a unitig other
\* than u, and a is the only k-mer present before n
Continues(g, u, a, n) ==
    /\ Successors(g, a) = {n}
    /\ \E w \in Unitigs(g) : w # u /\ n \in {KmerAt(w.seq, 0),
                                            twin(KmerAt(w.seq, Len(w.seq) - K))}
    /\ Predecessors(g, n) = {a}

\* the result r of checkJoin(a, cm_a, b) for the end a of the unitig u is
\* true exactly when some k-mer continues a, and then b is that k-mer
CheckJoinDecides(g, u, a, r) ==
    /\ r.ret <=> \E n \in Successors(g, a) : Continues(g, u, a, n)
    /\ r.ret => Continues(g, u, a, r.b)

\* a value no k-mer has, for the b the caller passes
NoKmer == 0 - 1

\* C19 (the claim as stated, which the code violates): for every end a of
\* every unitig, checkJoin(a, cm_a, b) returns true if and only if a has
\* exactly one forward neighbour present in the graph, that neighbour is an
\* end k-mer, in the orientation that continues a, of a unitig different
\* from a's, and it has exactly one backward neighbour present in the graph;
\* and whenever it returns true, b has been set to that neighbour.
C19_CheckJoinIffJoinable ==
    ~Crashed
    => \A u \in Unitigs(Graph) : \A a \in EndsOf(u) :
           CheckJoinDecides(Graph, u, a, checkJoin(Graph, a, MapOf(u), NoKmer))

\* two distinct unitigs of g are joinable: an end k-mer of one is followed, in
\* the graph, by an end k-mer of the other only, which it alone precedes
Joinable(g) ==
    \E u \in Unitigs(g) : \E a \in EndsOf(u) :
        \E n \in Successors(g, a) : Continues(g, u, a, n)

\* C11: after joinAllUnitigs() with no hint list returns, no two distinct
\* unitigs remain joinable: there is no end k-mer a of one unitig and end
\* k-mer b of another such that b is the only successor of a present in the
\* graph and a is the only predecessor of b present in the graph.
C11_NoJoinableAfterJoinAll ==
    (um_ret.op = "joinAllUnitigs" /\ um_ret.full_scan /\ ~um_ret.ub)
    => ~Joinable(Graph)

\* a full scan has joined unitigs
C11_Witness ==
    um_ret.op = "joinAllUnitigs" /\ um_ret.full_scan /\ ~um_ret.ub /\ um_ret.joined > 0


\* the neighbours of the two ends of a unitig that find(., true) can see:
\* the k-mers before its head and after its tail that are ends of a unitig
IsEnd(g, km) ==
    \E w \in Unitigs(g) : rep(km) \in {rep(KmerAt(w.seq, 0)), rep(KmerAt(w.seq, Len(w.seq) - K))}

EndPredecessors(g, u) == {n \in {backwardBase(KmerAt(u.seq, 0), b) : b \in 0..3} : IsEnd(g, n)}

EndSuccessors(g, u) ==
    {n \in {forwardBase(KmerAt(u.seq, Len(u.seq) - K), b) : b \in 0..3} : IsEnd(g, n)}

EndDegree(g, u) == Cardinality(EndPredecessors(g, u)) + Cardinality(EndSuccessors(g, u))

\* the total degree of the claim: predecessors of the head plus successors
\* of the tail present in the graph
Degree(g, u) ==
    Cardinality(Predecessors(g, KmerAt(u.seq, 0)))
    + Cardinality(Successors(g, KmerAt(u.seq, Len(u.seq) - K)))

numKmers(u) == Len(u.seq) - K + 1

\* the sequences of the live unitigs
Seqs(g) == {u.seq : u \in Unitigs(g)}

\* the elements of a vector
Range(v) == {v[i] : i \in DOMAIN v}

\* a removeUnitigs with at least one flag set has returned
Removed == um_ret.op = "removeUnitigs" /\ ~um_ret.ub /\ (um_ret.rmIsolated \/ um_ret.clipTips)

ToRemove(g, rmIsolated, clipTips) ==
    {w \in Unitigs(g) :
        /\ numKmers(w) < K
        /\ IF rmIsolated /\ clipTips THEN EndDegree(g, w) <= 1
           ELSE IF clipTips THEN EndDegree(g, w) = 1
           ELSE EndDegree(g, w) = 0}

Occurrences(g, km) ==
    {<<u, p>> \in UNION {{<<w, q>> : q \in 0..(Len(w.seq) - K)} : w \in Unitigs(g)} :
        rep(KmerAt(u.seq, p)) = km}

C25_OverlapAssertionHolds ==
    um_ret.op = "joinAllUnitigs" => ~um_ret.assert


\* km is at offset 0 or at offset len - k of a live unitig, in either orientation
AtExtremity(g, km) ==
    \E u \in Unitigs(g) : \E p \in {0, Len(u.seq) - K} : rep(KmerAt(u.seq, p)) = rep(km)

\* what C26 says of find(km, true), e, given find(km, false), f
ExtremitiesOnly(g, km, e, f) ==
    /\ ~e.ub
    /\ ~e.isEmpty <=> AtExtremity(g, km)
    /\ ~e.isEmpty => e = f

C29_ShortStrandIsCanonical ==
    \A i \in LiveShort(Graph) :
        \A km \in {v_kmers[i + 1].first, twin(v_kmers[i + 1].first)} :
            \A um \in {find(Graph, km, FALSE)} :
                (~um.ub /\ ~um.isEmpty /\ um.isShort) => (um.strand <=> km = rep(km))


\* C24 (the claim as stated, which the code violates): addUnitigSequence(km,
\* ...) returns true when it added a new unitig containing km, and returns
\* false when km was already present in the graph and only the coverage
\* information was updated.
C24_TrueIffAdded ==
    (um_ret.op = "addUnitigSequence" /\ ~um_ret.ub) => (um_ret.ret <=> um_ret.added)


\* n is a power of two, at least 1
IsPowerOfTwo(n) == n >= 1 /\ BitAnd(n, n - 1) = 0

\* C22 (the claim as stated, which the code violates): the capacity of
\* KmerHashTable and MinimizerHashTable is a power of two, at least 1, after
\* construction with any requested size, 0 included, and after any sequence
\* of insert, erase, reserve and clear.
C22_CapacityPowerOfTwo == IsPowerOfTwo(ht.size_)


\* find(h) returns the entry that was at bucket h
HandleServes(t, h, entry) == KHT_findH(t, h) = h /\ t.table[h + 1] = entry

\* C21 (the claim as stated, which the code does not implement): the bucket
\* index of a present key is a stable handle: find(h) returns the entry of
\* the key for as long as the key is not erased, across any intervening
\* inserts and erases of other keys.
C21_HandleStable ==
    [][\A h \in 0..(ht.size_ - 1) :
           (HT_isReal(ht, h) /\ absMap'[ht.table[h + 1].first] # NoVal)
               => HandleServes(ht', h, ht.table[h + 1])]_vars

\* C21 (amended): find(h) returns the entry of the key for as long as the
\* key is not erased, across erases of other keys and across the inserts
\* that do not resize the table (5 * num_empty >= capacity when insert is
\* called).
C21_HandleStableUntilResize ==
    [][\A h \in 0..(ht.size_ - 1) :
           (/\ HT_isReal(ht, h)
            /\ absMap'[ht.table[h + 1].first] # NoVal
            /\ ht_ret'.op = "insert" => 5 * ht.num_empty >= ht.size_)
               => HandleServes(ht', h, ht.table[h + 1])]_vars

\* an insert has stored a key beside another one in a table that still holds
\* a deleted slot, hence without resizing it
C21_Witness ==
    /\ ht_ret.op = "insert" /\ ht_ret.inserted
    /\ ht.pop >= 2
    /\ \E h \in 0..(ht.size_ - 1) : ht.table[h + 1].first = ht.deleted.first


\* insert and find of the class of the table
HT_insertOf(t, val) == IF ht_kind = "Kmer" THEN KHT_insert(t, val) ELSE MHT_insert(t, val)

HT_findIn(t, key) == IF ht_kind = "Kmer" THEN KHT_find(t, key) ELSE MHT_find(t, key)

\* every entry of t is found in t2, with its value
EntriesKept(t, t2) ==
    \A h \in 0..(t.size_ - 1) :
        HT_isReal(t, h) =>
            \A h2 \in {HT_findIn(t2, t.table[h + 1].first)} :
                h2 # t2.size_ /\ t2.table[h2 + 1] = t.table[h + 1]

\* C27: on insert, when 5 * num_empty < capacity holds before probing, the
\* capacity is exactly doubled and every live entry is still found with its
\* value afterwards; when it does not hold, the insert leaves the capacity
\* unchanged.
C27_InsertDoublesOrKeeps ==
    \A key \in HTKeys, v \in HTVals :
        \A r \in {HT_insertOf(ht, [first |-> key, second |-> v])} :
            IF 5 * ht.num_empty < ht.size_
            THEN r.t.size_ = 2 * ht.size_ /\ EntriesKept(ht, r.t)
            ELSE r.t.size_ = ht.size_

\* an insert that has doubled the capacity of a table holding a live entry:
\* cap is the capacity before the call
C27_Witness ==
    /\ ht_ret.op = "insert" /\ ht_ret.inserted
    /\ ht.size_ = 2 * ht_ret.cap /\ ht.pop >= 2

\* the bucket at which the probe of key starts
HT_home(t, key) ==
    BitAnd(IF ht_kind = "Kmer" THEN KmerHash(key) ELSE MinimizerHash(key), t.size_ - 1)

\* the number of steps from the home bucket of key to bucket h
HT_dist(t, key, h) == (h - HT_home(t, key)) % t.size_

\* the empty slot that ends the probe of key, and the deleted slots before it
HT_emptySlots(t) == {h \in 0..(t.size_ - 1) : t.table[h + 1].first = t.empty_val.first}

HT_terminator(t, key) ==
    CHOOSE e \in HT_emptySlots(t) :
        \A e2 \in HT_emptySlots(t) : HT_dist(t, key, e) <= HT_dist(t, key, e2)

HT_deletedOnPath(t, key) ==
    {h \in 0..(t.size_ - 1) :
        /\ t.table[h + 1].first = t.deleted.first
        /\ HT_dist(t, key, h) < HT_dist(t, key, HT_terminator(t, key))}

HT_firstDeleted(t, key) ==
    CHOOSE d \in HT_deletedOnPath(t, key) :
        \A d2 \in HT_deletedOnPath(t, key) : HT_dist(t, key, d) <= HT_dist(t, key, d2)

\* C28: insert of an absent key stores it in the first deleted slot met on
\* its probe path when there is one before the terminating empty slot, and
\* otherwise in that empty slot; num_empty is decremented only in the
\* second case.  The probe runs on the table as it is after the resize of
\* the same call, which has no deleted slot.
C28_FirstDeletedSlotReused ==
    \A key \in HTKeys, v \in HTVals :
        (absMap[key] = NoVal /\ HT_mayInsert(ht)) =>
            \A r \in {HT_insertOf(ht, [first |-> key, second |-> v])} :
                /\ r.inserted /\ ~r.hang
                /\ r.t.table[r.it + 1] = [first |-> key, second |-> v]
                /\ IF 5 * ht.num_empty < ht.size_
                   THEN r.t.num_empty = r.t.size_ - r.t.pop
                   ELSE /\ HT_emptySlots(ht) # {}
                        /\ r.it = IF HT_deletedOnPath(ht, key) # {}
                                  THEN HT_firstDeleted(ht, key)
                                  ELSE HT_terminator(ht, key)
                        /\ r.t.num_empty = IF HT_deletedOnPath(ht, key) # {}
                                           THEN ht.num_empty
                                           ELSE ht.num_empty - 1
                        /\ \A h \in 0..(ht.size_ - 1) :
                               h # r.it => r.t.table[h + 1] = ht.table[h + 1]

\* an insert that has stored its key in a deleted slot: the capacity and
\* num_empty are what they were before the call, ne
C28_Witness ==
    /\ ht_ret.op = "insert" /\ ht_ret.inserted
    /\ ht.size_ = ht_ret.cap /\ ht.num_empty = ht_ret.ne
    /\ ht.pop + ht.num_empty < ht.size_

\* C23: writeGFA numbers the S-lines contiguously and without gaps: the
\* long unitigs get the ids 1..|long|, the short ones the next |short| ids
\* and the abundant ones the |abundant| ids after those, so that the i-th
\* S-line written has the id i.
C23_ContiguousIds ==
    um_ret.op = "writeGFA" =>
        \A i \in 1..Len(um_ret.S) : um_ret.S[i].id = i

\* the same for the long and the short unitigs alone
C23_ContiguousLongShort ==
    um_ret.op = "writeGFA" =>
        \A i \in 1..Len(um_ret.S) :
            i <= Len(v_unitigs) + Len(v_kmers) => um_ret.S[i].id = i

\* the flags a worker holds: in initColorSets from the test_and_set that
\* succeeded to the clear after the failed probe or after setOccupied, in
\* buildColorSets from the test_and_set to the clear after add
ICS_held(w) ==
    IF w \in DOMAIN cs_wk /\ cs_wk[w].pc \in {"check", "set", "ovf_check"}
    THEN {cs_wk[w].id_lock} ELSE {}

BCS_held(w) ==
    IF w \in DOMAIN bcs_wk /\ bcs_wk[w].pc \in {"add_read", "add_write"}
    THEN {getHash(bcs_wk[w].um.u) % nb_locks} ELSE {}

HeldBy(w) == ICS_held(w) \cup BCS_held(w)

AllFinished ==
    /\ ICS_Done
    /\ \A w \in DOMAIN bcs_wk : bcs_wk[w].pc = "done"

\* C30: in initColorSets and buildColorSets no worker ever holds two slot
\* flags at once, and a flag is set exactly while one worker holds it; the
\* worker holds the flag of the slot from its read of the slot to its write
\* (at the write the slot is still as it was read: unoccupied, or with the
\* colors that were read), and when all workers have finished every flag
\* is clear.
C30_OneFlagHeldAcrossReadWrite ==
    /\ \A w \in Workers : Cardinality(HeldBy(w)) <= 1
    /\ \A w1, w2 \in Workers : w1 # w2 => HeldBy(w1) \cap HeldBy(w2) = {}
    /\ \A l \in 0..(nb_locks - 1) : cs_locks[l + 1] <=> \E w \in Workers : l \in HeldBy(w)
    /\ \A w \in DOMAIN cs_wk :
          cs_wk[w].pc = "set" =>
              /\ cs_wk[w].id_lock = cs_wk[w].h_v % nb_locks
              /\ isUnoccupied(cs_wk[w].h_v)
    /\ \A w \in DOMAIN bcs_wk :
          bcs_wk[w].pc = "add_write" =>
              bcs_wk[w].tmp = color_sets[getHash(bcs_wk[w].um.u) + 1].colors
    /\ AllFinished => \A l \in 0..(nb_locks - 1) : ~cs_locks[l + 1]

\* buildColorSets has returned with colors added, after a worker of
\* initColorSets had to go to the overflow scan
C30_Witness ==
    /\ AllFinished /\ bcs_sh.returned
    /\ \E u \in 1..NbUnitigs : overflow[u] # NoSlot
    /\ \E s \in Slots : color_sets[s + 1].colors # {}

\* the workers that are between the lock of mutex_cs_overflow (line 173) and
\* its release at the end of the block (line 191)
InOverflow == {w \in Workers : cs_wk[w].pc \in {"ovf_probe", "ovf_check"}}

\* at most one worker is on the overflow path, and it is the holder of the mutex
OverflowHolder ==
    /\ Cardinality(InOverflow) <= 1
    /\ \A w \in Workers : w \in InOverflow <=> cs_sh.mutex_cs_overflow = w

\* a step that changes last_empty_pos or the overflow table is a step of the
\* holder of the mutex, and no other worker moves in it
OverflowWrittenByHolder ==
    (cs_sh'.last_empty_pos # cs_sh.last_empty_pos \/ overflow' # overflow) =>
        \E w \in InOverflow :
            /\ cs_sh.mutex_cs_overflow = w
            /\ \A w2 \in Workers : w2 # w => cs_wk'[w2] = cs_wk[w2]

\* C31: the overflow path of initColorSets is strictly sequential: at most
\* one worker at a time is between acquiring and releasing the overflow
\* mutex, and the cursor last_empty_pos and the overflow table are read and
\* modified only by the worker holding that mutex.
C31_OverflowSequential == []OverflowHolder /\ [][OverflowWrittenByHolder]_vars

\* a worker scans from last_empty_pos under the mutex while another waits
\* for the mutex
C31_Witness ==
    \E w1, w2 \in Workers :
        /\ cs_wk[w1].pc = "ovf_check" /\ cs_sh.mutex_cs_overflow = w1
        /\ cs_wk[w2].pc = "ovf_lock"

RECURSIVE AllChunks(_)
\* the chunks the reader delivers from the reader state sh on, the last one
\* being that of the call that returns true
AllChunks(sh) ==
    The({IF r.ret THEN <<r.v>> ELSE <<r.v>> \o AllChunks(r.sh)
         : r \in {reading_function(sh)}})

RECURSIVE Flatten(_)
Flatten(chunks) == IF chunks = <<>> THEN <<>> ELSE Head(chunks) \o Flatten(Tail(chunks))

\* the offsets at which the slices of a record of length n start: each one
\* SliceLen - (K - 1) after the one before, as long as k - 1 characters
\* after the offset are inside the record
SliceStarts(n) == {o \in 0..n : o % (SliceLen - (K - 1)) = 0 /\ o + (K - 1) < n}

\* the pairs a record of file c is delivered as
RecordPairs(rec, c) ==
    IF Len(rec) > SliceLen
    THEN [j \in 1..Cardinality(SliceStarts(Len(rec))) |->
             <<substr(rec, (j - 1) * (SliceLen - (K - 1)), SliceLen), c>>]
    ELSE << <<rec, c>> >>

RECURSIVE FilePairs(_, _, _)
\* the pairs of the records of the files from record r of file c on
FilePairs(fs, c, r) ==
    IF c >= Len(fs) THEN <<>>
    ELSE IF r >= Len(fs[c + 1]) THEN FilePairs(fs, c + 1, 0)
    ELSE RecordPairs(fs[c + 1][r + 1], c) \o FilePairs(fs, c, r + 1)

IsSuffix(a, b2) ==
    Len(a) <= Len(b2) /\ a = SubSeq(b2, Len(b2) - Len(a) + 1, Len(b2))

\* C32: the reader of buildColorSets cuts every record longer than SliceLen
\* into slices of at most SliceLen characters, each starting k - 1
\* characters before the end of the one before, so that every k-mer of the
\* record lies inside a slice; every slice carries the color id of the file
\* of the record, also when the slices of a record are delivered in
\* successive chunks, and no chunk holds more than chunk_size pairs.  The
\* chunks still to come are those of the records not yet delivered.
C32_SlicesCoverEveryKmer ==
    (bcs_sh # <<>> /\ ~bcs_sh.stop) =>
        \A chunks \in {AllChunks(bcs_sh)} :
            /\ \A i \in 1..Len(chunks) :
                  /\ Len(chunks[i]) <= chunk_size
                  /\ \A j \in 1..Len(chunks[i]) : Len(chunks[i][j][1]) <= SliceLen
            /\ IsSuffix(Flatten(chunks), FilePairs(bcs_sh.fp.files, 0, 0))
            /\ (bcs_sh.fp.f = 0 /\ bcs_sh.fp.r = 0 /\ bcs_sh.len_read = 0) =>
                  Flatten(chunks) = FilePairs(bcs_sh.fp.files, 0, 0)
            /\ \A c \in 1..Len(bcs_sh.fp.files) : \A r \in 1..Len(bcs_sh.fp.files[c]) :
                  \A rec \in {bcs_sh.fp.files[c][r]} :
                     Len(rec) > SliceLen =>
                        \A p \in 0..(Len(rec) - K) :
                           \E o \in SliceStarts(Len(rec)) :
                              o <= p /\ p + K <= o + Len(substr(rec, o, SliceLen))

\* a worker has taken the chunk that holds the second slice of the record
\* CAAAGAT of the file of color 1, the first slice having filled the chunk
\* before
C32_Witness ==
    \E w \in DOMAIN bcs_wk :
        /\ bcs_wk[w].pc = "kmer"
        /\ bcs_wk[w].v_read_color = << <<substr(CAAAGAT, SliceLen - (K - 1), SliceLen), 1>> >>
        /\ bcs_sh.pos_read >= bcs_sh.len_read

(***************************************************************************)
(* SpecCheck: checkColors, the oracle that compares the color sets with a  *)
(* table k-mer -> bit vector of file ids built from the input files.  The  *)
(* color sets it is run on are those of mapColors, mapped from the inputs  *)
(* or loaded from a color file (readColorSets, a collaborator: any color   *)
(* sets for the unitigs of the graph).  The 64 bits of a size_t word of    *)
(* the bit vector are scaled down to WordBits.                             *)
(***************************************************************************)
WordBits == 2

\* the color files differ from the colors of the inputs in at most this many
\* (unitig, color, k-mer) triples
MaxColorDiff == 2

\* opt.filename_seq_in: the reads of each file
CheckInputs ==
    { << << <<0, 0, 0, 0, 0, 1>> >>, << <<0, 1, 0, 1, 0>> >>,
         << <<3, 2, 3, 2, 3>>, <<2, 0, 0, 0, 3>> >> >>,
      << << <<0, 0, 0, 0, 0, 1>>, <<2, 0, 0, 0, 3>> >>, << <<3, 2, 3, 2, 3>>, <<0, 1, 0>> >> >> }

\* the unitigs of the graph of these inputs, in the order they are added
CheckGraph == << <<0, 0, 0, 0, 0, 1>>, <<0, 1, 0, 1, 0>>, <<2, 0, 0, 0, 3>> >>

RECURSIVE checkColors_reads(_, _, _)
\* lines 436-438: the k-mers it_km->first.rep() of the reads FQ.read_next
\* delivers, each with the file_id of its read, in reading order
checkColors_reads(fs, c, r) ==
    IF c >= Len(fs) THEN <<>>
    ELSE IF r >= Len(fs[c + 1]) THEN checkColors_reads(fs, c + 1, 0)
    ELSE [p \in 1..(Len(fs[c + 1][r + 1]) - K + 1) |->
             <<rep(KmerAt(fs[c + 1][r + 1], p - 1)), c>>]
         \o checkColors_reads(fs, c, r + 1)

\* lines 445-449: id = file_id / 64; tv is padded with zero words up to
\* word id, then tv[id] |= 1 << (file_id % 64)
checkColors_mark(tv, file_id) ==
    [j \in 1..(IF Len(tv) > file_id \div WordBits + 1 THEN Len(tv)
               ELSE file_id \div WordBits + 1) |->
        IF j = file_id \div WordBits + 1
        THEN BitOr(IF j <= Len(tv) THEN tv[j] ELSE 0, 2 ^ (file_id % WordBits))
        ELSE IF j <= Len(tv) THEN tv[j] ELSE 0]

RECURSIVE checkColors_table(_, _, _)
\* lines 436-450: km_h after the reads from the n-th on, as a function from
\* the keys inserted to their tv
checkColors_table(km_h, reads, n) ==
    IF n > Len(reads) THEN km_h
    ELSE checkColors_table(
             IF reads[n][1] \in DOMAIN km_h
             THEN [km_h EXCEPT ![reads[n][1]] = checkColors_mark(@, reads[n][2])]
             ELSE km_h @@ (reads[n][1] :> checkColors_mark(<<>>, reads[n][2])),
             reads, n + 1)

\* cs->contains(ucm, i): color i is set for the k-mer of the unitig at ucm.dist
UnitigColors_contains(colors, ucm, i) == <<i, ucm.dist>> \in colors

\* lines 456-492 for one key of km_h: "ok" when the loop body passes it
checkColors_kmer(g, km, tv, nb_files) ==
    The({IF ucm.ub THEN "ub"
         ELSE IF ucm.isEmpty THEN "not_found"
         ELSE IF \E i \in 0..((IF nb_files < Len(tv) * WordBits THEN nb_files
                                  ELSE Len(tv) * WordBits) - 1) :
                    UnitigColors_contains(color_sets[getHash(UnitigId(g, ucm)) + 1].colors,
                                          ucm, i)
                        # (BitAnd(tv[(i \div WordBits) + 1] \div (2 ^ (i % WordBits)), 1) = 1)
         THEN "mismatch"
         ELSE "ok"
         : ucm \in {find(g, km, FALSE)}})

\* void ColoredCDBG::checkColors(opt), lines 424-497: TRUE when it comes to
\* "everything is fine", FALSE when it reports an error and exits
checkColors(g, fs) ==
    \A km_h \in {checkColors_table(<<>>, checkColors_reads(fs, 0, 0), 1)} :
        \A km \in DOMAIN km_h : checkColors_kmer(g, km, km_h[km], Len(fs)) = "ok"

\* the (unitig, color, k-mer offset) triples of a graph and its inputs
ColorTriples(g, fs) ==
    {<<UnitigId(g, u), c, p>> : u \in Unitigs(g), c \in 0..(Len(fs) - 1),
                                p \in 0..(MaxUnitigLen - K)}
    \cap {t \in (1..NbUnitigs) \X (0..(Len(fs) - 1)) \X (0..(MaxUnitigLen - K)) :
             \E u \in Unitigs(g) : UnitigId(g, u) = t[1] /\ t[3] <= Len(u.seq) - K}

\* the triples of the colors of the inputs
InputTriples(g, fs) ==
    {t \in ColorTriples(g, fs) :
        \E u \in Unitigs(g) :
            /\ UnitigId(g, u) = t[1]
            /\ rep(KmerAt(u.seq, t[3])) \in FileKmers(fs[t[2] + 1])}

\* the color sets that hold a set of triples, one slot per unitig
StoreOf(triples) ==
    [s \in 1..NbUnitigs |->
        [occupied |-> TRUE, colors |-> {<<t[2], t[3]>> : t \in {x \in triples : x[1] = s}}]]

CheckInit ==
    /\ \E fs \in CheckInputs :
          /\ bcs_sh = [fp |-> [files |-> fs, f |-> Len(fs), r |-> 0], s |-> <<>>,
                       pos_read |-> K - 1, len_read |-> 0, prev_file_id |-> 0,
                       next_file |-> FALSE, stop |-> TRUE, ub |-> FALSE, returned |-> TRUE]
          /\ \E g \in {BuildGraph(NewUnitigMapper, CheckGraph, NbUnitigs)} :
                /\ hmap_min_unitigs = g.hmap_min_unitigs
                /\ v_unitigs = g.v_unitigs
                /\ v_kmers = g.v_kmers
                /\ h_kmers_ccov = g.h_kmers_ccov
                /\ color_sets = StoreOf(InputTriples(g, fs))
    /\ bcs_wk = [w \in Workers |-> [BcsWorkerIdleRec EXCEPT !.pc = "done"]]
    /\ um_ret = [op |-> "none", n |-> 0]
    /\ head_hash = [u \in 1..NbUnitigs |-> [i \in 1..MaxNbHash |-> u - 1]]
    /\ accessor = [u \in 1..NbUnitigs |-> 1]
    /\ overflow = [u \in 1..NbUnitigs |-> NoSlot]
    /\ cs_locks = [l \in 1..nb_locks |-> FALSE]
    /\ cs_sh = [g_a |-> NbUnitigs + 1, last_empty_pos |-> 0, mutex_cs_overflow |-> NoWorker]
    /\ cs_wk = [w \in Workers |-> [WorkerIdleRec EXCEPT !.pc = "done"]]

\* mapColors with a color file, line 110: readColorSets loads the color sets
KReadColorSets ==
    /\ \E d \in SUBSET ColorTriples(Graph, bcs_sh.fp.files) :
          /\ Cardinality(d) <= MaxColorDiff
          /\ \A inp \in {InputTriples(Graph, bcs_sh.fp.files)} :
                color_sets' = StoreOf((inp \ d) \cup (d \ inp))
    /\ um_ret' = [op |-> "readColorSets", n |-> 0]
    /\ UNCHANGED <<hmap_min_unitigs, v_unitigs, v_kmers, h_kmers_ccov, overflow, accessor,
                   head_hash, cs_locks, htVars, drvVars, icsVars, bcsVars>>

KCheckColors ==
    /\ um_ret' = [op |-> "checkColors", n |-> 0,
                  fine |-> checkColors(Graph, bcs_sh.fp.files)]
    /\ UNCHANGED <<hmap_min_unitigs, v_unitigs, v_kmers, h_kmers_ccov, notUM>>

CheckNext == KReadColorSets \/ KCheckColors

InitCheck == CheckInit /\ HTIdle /\ DrvIdle

SpecCheck == InitCheck /\ [][CheckNext]_vars

\* color c is set in the graph for the canonical k-mer km
ColorInGraph(km, c) ==
    \E u \in Unitigs(Graph) : \E p \in 0..(Len(u.seq) - K) :
        rep(KmerAt(u.seq, p)) = km /\ <<c, p>> \in ColorsOf(UnitigId(Graph, u))

\* C33: checkColors finishes without reporting an error only if, for every
\* k-mer of the inputs and every color index i below the number of input
\* files, the color set of the graph holds color i for that k-mer exactly
\* when the k-mer occurs in input file i.
C33_CheckColorsExact ==
    (um_ret.op = "checkColors" /\ um_ret.fine) =>
        \A fs \in {bcs_sh.fp.files} :
            \A i \in 0..(Len(fs) - 1) :
                \A km \in UNION {FileKmers(fs[c]) : c \in 1..Len(fs)} :
                    ColorInGraph(km, i) <=> km \in FileKmers(fs[i + 1])

\* the same for the colors of the words of the bit vector of the k-mer: the
\* colors below WordBits times the number of the last word that holds a
\* file of the k-mer
C33_CheckColorsExactInWords ==
    (um_ret.op = "checkColors" /\ um_ret.fine) =>
        \A fs \in {bcs_sh.fp.files} :
            \A km \in UNION {FileKmers(fs[c]) : c \in 1..Len(fs)} :
                \A i \in 0..(Len(fs) - 1) :
                    (\E c \in 0..(Len(fs) - 1) :
                        km \in FileKmers(fs[c + 1]) /\ i \div WordBits <= c \div WordBits)
                    => (ColorInGraph(km, i) <=> km \in FileKmers(fs[i + 1]))

\* C34: after any sequence of insert, erase (by key, by iterator or by
\* bucket index), reserve and clear, pop equals the number of slots that
\* hold a real key and num_empty the number of slots that hold the empty
\* sentinel.
C34_CountersMatchSlots ==
    HT_live =>
        /\ ht.pop = Cardinality(HT_realSlots(ht))
        /\ ht.num_empty = Cardinality(HT_emptySlots(ht))

\* the same without the calls of erase by bucket index on buckets that hold
\* no key
C34_CountersMatchWithoutStray ==
    (HT_live /\ StrayErases(ht) = 0) => ht.num_empty = Cardinality(HT_emptySlots(ht))

\* C35: every call of insert terminates: when its probe loop runs, the key
\* is already present or a slot holds the empty sentinel, after any sequence
\* of earlier insert, erase and reserve operations.
C35_InsertTerminates == ht_ret.op = "insert" => ~ht_ret.hang

\* a step from a state in which invalid is set leaves it set, and a build
\* in it returns false and leaves the underlying graph as it is
InvalidStays ==
    invalid =>
        /\ invalid'
        /\ drv_ret'.op = "build" /\ drv_ret' # drv_ret => ~drv_ret'.ret /\ cdbg' = cdbg

\* C36: the invalid flag of ColoredCDBG is absorbing under its own
\* operations: once it is true (failed build, failed color load in mapColors,
\* or clear()), no sequence of build, mapColors, write and clear calls makes
\* it false again; build called after clear() returns false without running
\* the underlying graph construction.
C36_InvalidAbsorbing == [][InvalidStays]_vars

\* a build on a graph that was valid, was written and was then made invalid
\* by clear() or by a failed load of the colors: it has returned false
C36_Witness ==
    /\ drv_ret.op = "build" /\ drv_ret.pre_invalid /\ ~drv_ret.ret
    /\ invalid /\ ~cdbg.built /\ files # {}

\* the bins stored in the minimizer index
StoredBins(t) == {Bin(t, h) : h \in {h1 \in 0..(t.size_ - 1) : HT_isReal(t, h1)}}

\* the indices (from 1) of the bookkeeping records of a bin: the entries
\* whose id field is RESERVED_ID
BookkeepingAt(v) == {i \in 1..Len(v) : BitAnd(v[i], MASK_CONTIG_ID) = MASK_CONTIG_ID}

\* a bin is not empty and has at most one bookkeeping record, its last entry
BinWellFormed(v) == Len(v) > 0 /\ BookkeepingAt(v) \subseteq {Len(v)}

\* C37: in every state reachable by addUnitig, deleteUnitig and swapUnitigs,
\* every minimizer bin holds at most one bookkeeping record (id field equal
\* to RESERVED_ID) and, when it holds one, that record is the last entry of
\* the bin; no bin stored in the index is empty.
C37_BinsWellFormed == \A v \in StoredBins(hmap_min_unitigs) : BinWellFormed(v)

\* after a deleteUnitig, with an abundant k-mer in the graph: a bin with a
\* unitig entry before its bookkeeping record, whose count is not 0
C37_Witness ==
    /\ um_ret.op = "deleteUnitig"
    /\ LiveAbundant(Graph) # {}
    /\ \E v \in StoredBins(hmap_min_unitigs) :
          /\ Len(v) >= 2
          /\ BookkeepingAt(v) = {Len(v)}
          /\ BitAnd(v[Len(v)], MASK_CONTIG_POS) > 0

\* the abundant path of deleteUnitig on the abundant k-mer km, lines
\* 1084-1098: every bin it finds, at the time it finds it, ends in a
\* bookkeeping record that counts at least one abundant k-mer
AbundantDecrementsRecords(t, km) ==
    LET km_str == KmerToString(km)
        res == minHashResults(km_str, 0)
    IN  \A j \in 1..Len(res) :
            LET t1 == deleteUnitig_abundant(t, km_str, SubSeq(res, 1, j - 1), 1)
                it_h == MHT_find(t1, MinzRep(km_str, res[j].pos))
            IN  it_h # t1.size_ =>
                    LET v == Bin(t1, it_h)
                    IN  /\ Len(v) > 0
                        /\ BitAnd(v[Len(v)], MASK_CONTIG_ID) = MASK_CONTIG_ID
                        /\ BitAnd(v[Len(v)], MASK_CONTIG_POS) > 0

\* the abundant path decrements only existing bookkeeping records
C38_AbundantWithinBounds ==
    \A u \in Unitigs(Graph) :
        u.isAbundant => AbundantDecrementsRecords(hmap_min_unitigs, rep(KmerAt(u.seq, 0)))

\* deleteUnitig of a k-mer of v_kmers reads no bin past its end
C38_ShortWithinBounds ==
    \A u \in Unitigs(Graph) : \A oob \in OobOutcomes :
        u.isShort => ~deleteUnitig_walk(Graph, TRUE, u.pos_unitig, oob).past_end

\* C38 (the claim as stated, which the code violates): every access
\* deleteUnitig makes to a minimizer bin is within the bin's current bounds:
\* after it has removed the unitig's entry from a bin, the test for the
\* overcrowded marker reads only an index below the bin's new size, and the
\* abundant path decrements only an existing bookkeeping record.
C38_DeleteWithinBounds ==
    \A u \in Unitigs(Graph) : \A oob \in OobOutcomes :
        IF u.isAbundant
        THEN AbundantDecrementsRecords(hmap_min_unitigs, rep(KmerAt(u.seq, 0)))
        ELSE ~deleteUnitig_walk(Graph, u.isShort, u.pos_unitig, oob).past_end

\* the unitigs of the chunk a worker of initColorSets has taken and has
\* not yet given a slot
ICS_range(w) ==
    IF cs_wk[w].pc \in {"take", "done"} THEN {}
    ELSE cs_wk[w].unitig..(cs_wk[w].l_b - 1)

\* the unitigs no worker has taken yet
ICS_todo == cs_sh.g_a..NbUnitigs

\* the slots set occupied so far: one per unitig a worker has finished
ICS_occupied == {h \in Slots : ~isUnoccupied(h)}

\* every unitig is with exactly one of: the range not yet taken, the chunk
\* of one worker, the unitigs that have their slot
ICS_Partition ==
    /\ \A w1, w2 \in Workers :
          w1 # w2 => ICS_range(w1) \cap ICS_range(w2) = {}
    /\ \A w \in Workers :
          /\ ICS_range(w) \cap ICS_todo = {}
          /\ Cardinality(ICS_range(w)) <= ChunkSize
    /\ Cardinality(ICS_occupied) + Cardinality(UNION {ICS_range(w) : w \in Workers})
          + Cardinality(ICS_todo) = NbUnitigs
    /\ ICS_Done =>
          /\ ICS_todo = {}
          /\ \A u \in 1..NbUnitigs : getHash(u) \in ICS_occupied
          /\ \A u1, u2 \in 1..NbUnitigs : u1 # u2 => getHash(u1) # getHash(u2)

\* what reading_function keeps between two calls
ReaderOf(sh) ==
    [fp |-> sh.fp, s |-> sh.s, pos_read |-> sh.pos_read, len_read |-> sh.len_read,
     prev_file_id |-> sh.prev_file_id, next_file |-> sh.next_file]

\* a worker of buildColorSets holds a chunk
BCS_holds(w) == bcs_wk[w].pc \notin {"take", "done"}

\* the reads of chunk v after read i hold no k-mer
NoKmerAfter(v, i) == \A i2 \in (i + 2)..Len(v) : Len(v[i2][1]) < K

\* a step in which the reader is called hands its chunk to the one worker
\* that called it and to no other, and the reader goes on from the chunk
\* after it; a worker lets go of a chunk only at its last k-mer
ChunkHandedToOne ==
    /\ (bcs_sh # <<>> /\ ReaderOf(bcs_sh') # ReaderOf(bcs_sh)) =>
          \A r \in {reading_function(bcs_sh)} :
              /\ ~bcs_sh.stop
              /\ bcs_sh'.stop = r.ret
              /\ ~r.ret => AllChunks(bcs_sh') = Tail(AllChunks(bcs_sh))
              /\ \E w \in Workers :
                    /\ bcs_wk[w].pc = "take"
                    /\ bcs_wk'[w] = worker_next(r.v, 0, 0)
                    /\ \A w2 \in Workers \ {w} : bcs_wk'[w2] = bcs_wk[w2]
    /\ bcs_wk # <<>> =>
          \A w \in Workers :
              (BCS_holds(w) /\ bcs_wk'[w].v_read_color # bcs_wk[w].v_read_color) =>
                  \E me \in {bcs_wk[w]} :
                      /\ me.pc \in {"kmer", "add_write"}
                      /\ bcs_wk'[w].pc = "take"
                      /\ NoKmerAfter(me.v_read_color, me.i)
                      /\ me.it_km + (IF me.pc = "add_write" THEN me.um.len ELSE 1)
                            > Len(me.v_read_color[me.i + 1][1]) - K

\* when the threads of a pass have been joined no worker holds a chunk, and
\* when buildColorSets has returned the reader has delivered every record
PassEndsEmptyHanded ==
    bcs_sh # <<>> =>
        /\ (\A w \in Workers : bcs_wk[w].pc = "done") => bcs_sh.stop
        /\ bcs_sh.returned =>
              /\ \A w \in Workers : ~BCS_holds(w)
              /\ ~FileParser_read(bcs_sh.fp).ok
              /\ bcs_sh.pos_read >= bcs_sh.len_read

unitigCount(g) == Len(g.v_unitigs) + Len(g.v_kmers) + g.h_kmers_ccov.pop

\* the object after the step
GraphAfter ==
    [hmap_min_unitigs |-> hmap_min_unitigs', v_unitigs |-> v_unitigs',
     v_kmers |-> v_kmers', h_kmers_ccov |-> h_kmers_ccov', ub |-> FALSE]

\* the canonical k-mers of kms that find finds in g
FoundKmers(g, kms) ==
    {km \in kms : \E um \in {find(g, km, FALSE)} : ~um.ub /\ ~um.isEmpty}

\* the step is a call of joinAllUnitigs that has returned
JoinReturned ==
    /\ um_ret'.op = "joinAllUnitigs" /\ um_ret'.n = um_ret.n + 1
    /\ ~um_ret'.ub

\* a joinAllUnitigs that returns j keeps the k-mers find finds, takes j off
\* unitigCount and leaves no tombstone
JoinRegroups ==
    JoinReturned =>
        \A kms \in {GraphKmers(Graph) \cup GraphKmers(GraphAfter)
                    \cup UNION {Kmers(seq) : seq \in CleanupPool \cup JoinPool}} :
            /\ FoundKmers(GraphAfter, kms) = FoundKmers(Graph, kms)
            /\ FoundKmers(Graph, kms) = GraphKmers(Graph)
            /\ unitigCount(GraphAfter) = unitigCount(Graph) - um_ret'.joined
            /\ NoTombstone(GraphAfter)

\* C40: joinAllUnitigs changes only how k-mers are grouped: when it returns
\* j, the set of canonical k-mers found by find is the same as before the
\* call, unitigCount() has decreased by exactly j, and v_unitigs and v_kmers
\* contain no tombstone slot (NULL pointer or deleted k-mer) below their
\* size.
C40_JoinRegroupsOnly == [][JoinRegroups]_vars

\* a joinAllUnitigs has returned 1 or more: the graph holds a unitig that
\* no caller added, longer than a k-mer, and nothing of what it was joined
\* from is left as a tombstone
C40_Witness ==
    /\ um_ret.op = "joinAllUnitigs" /\ ~um_ret.ub /\ um_ret.joined >= 1
    /\ NoTombstone(Graph)
    /\ \E u \in Unitigs(Graph) :
          /\ Len(u.seq) > K
          /\ \A seq \in CleanupPool : Kmers(seq) # Kmers(u.seq)

=============================================================================
